---- MODULE Spec2Model ----
(***************************************************************************)
(* ABG analyzer (src/src/utils/abgCalculator.js, class ABGAnalyzer): the   *)
(* six-step analysis pipeline as a state machine.                          *)
(*                                                                         *)
(* Number representation.  JavaScript numbers are modelled in fixed point: *)
(*   - ph is held in hundredths (7.35 is 735);                             *)
(*   - paco2, hco3, na, cl, albumin and every value computed from them are *)
(*     held in fortieths (40 is 1600, 0.5 is 20).                          *)
(* Every number the model passes for paco2, hco3, na, cl and albumin is a  *)
(* multiple of 0.5 (20 fortieths), so each product with a coefficient of   *)
(* the code (1.5, 0.6, 0.1, 0.35, 0.2, 0.5, 2.5) is a whole number of      *)
(* fortieths and \div is exact.  On these inputs the double arithmetic of  *)
(* the code decides every comparison as exact arithmetic does; inputs off  *)
(* this grid, where rounding of doubles can move a value that lies on a    *)
(* tolerance bound, are outside the model.                                 *)
(* A JavaScript value is a record [t, n]: t is "undefined", "null", "nan", *)
(* "num" or "str", and n is the number when t = "num" and the number the   *)
(* string converts to when t = "str" (a numeric string such as "7.25").    *)
(* Strings are passed for ph and paco2 only.                               *)
(*                                                                         *)
(* Objects.  this.state refers to an object that analyze hands to its      *)
(* caller (return { ...this.results, state: this.state }), so the caller   *)
(* and the analyzer share it.  stateRef is the identity of the object      *)
(* this.state refers to, `state` is the content of that object, and every  *)
(* object literal assigned to this.state is a new identity.  The object    *)
(* the caller gets for the results is a copy made by the spread, with      *)
(* strings and null as its members, and is referred to by the caller only. *)
(*                                                                         *)
(* Components.  app, form and upload hold the useState values of App,      *)
(* ManualInputForm and FileUpload.  An event handler is one action: React  *)
(* applies the state updates a handler queues together when the handler    *)
(* returns, so the states between handlers are the states of the component.*)
(* An asynchronous handler is one action per part between two awaits.      *)
(***************************************************************************)
EXTENDS Integers, Sequences, FiniteSets, TLC

VARIABLES pc, values, results, state, calls, returned, stateRef
\* the React state of the components: App, ManualInputForm, FileUpload
VARIABLES app, form, upload

\* the state of the components, which the analyzer never reads or writes
ui == <<app, form, upload>>

vars == <<pc, values, results, state, calls, returned, stateRef, ui>>

(* ------------------------- JavaScript values --------------------------- *)

Undef == [t |-> "undefined", n |-> 0]
NullV == [t |-> "null", n |-> 0]
NaNV  == [t |-> "nan", n |-> 0]
Num(x) == [t |-> "num", n |-> x]
\* a numeric string; the relational and arithmetic operators convert it
Str(x) == [t |-> "str", n |-> x]

\* x in halves (2 * the real value) -> fortieths
H(x) == Num(20 * x)
\* ph in hundredths
P(x) == Num(x)

\* global isNaN(x): ToNumber(undefined) = NaN, ToNumber(null) = 0
isNaN(x) == x.t \in {"undefined", "nan"}

\* ToNumber on the operands of the arithmetic operators: null is 0
ToNumber(x) == IF x.t = "num" THEN x.n ELSE 0

\* parseFloat(x): String(undefined) and String(null) do not parse
parseFloat(x) == IF x.t = "num" THEN x ELSE NaNV

Abs(x) == IF x < 0 THEN 0 - x ELSE x

Max(a, b) == IF a >= b THEN a ELSE b

(* ------------------------------ records -------------------------------- *)

Null == "null"

NoError == [kind |-> "null", field |-> "", value |-> 0, lo |-> 0, hi |-> 0]

NullRatio == [t |-> "null", n |-> 0, d |-> 1]

\* this.results.error after the catch block: `Analysis Error: ${error.message}`
Thrown(message) ==
  [kind |-> "thrown", field |-> message, value |-> 0, lo |-> 0, hi |-> 0]

\* resetStateAndResults: this.results
InitResults ==
  [step1 |-> "", step2 |-> "", step3 |-> "", step4 |-> "", step5 |-> "",
   step6 |-> "", finalInterpretation |-> "", error |-> NoError]

\* resetStateAndResults: this.state
InitState ==
  [acidBaseStatus |-> Null,
   primaryDisorder |-> Null,
   compensationType |-> Null,
   expectedCompensationValue |-> NullV,
   compensationAssessment |-> Null,
   additionalDisorders |-> <<>>,
   anionGap |-> NullV,
   correctedAnionGap |-> NullV,
   deltaRatio |-> NullRatio,
   deltaRatioAssessment |-> Null]

NoValues ==
  [ph |-> Undef, paco2 |-> Undef, hco3 |-> Undef,
   na |-> Undef, cl |-> Undef, albumin |-> Undef]

(* ---------------------------- validateInputs --------------------------- *)

Required == <<"ph", "paco2", "hco3">>

\* the loop test without its null check
MissingOrInvalid_NoNull(x) == x.t = "undefined" \/ isNaN(x)

\* the test of the loop body for one key
MissingOrInvalid(x) == x.t = "undefined" \/ x.t = "null" \/ isNaN(x)

\* index in Required of the first key that fails the loop test, 0 if none
FirstMissing(v) ==
  IF MissingOrInvalid(v.ph) THEN 1
  ELSE IF MissingOrInvalid(v.paco2) THEN 2
  ELSE IF MissingOrInvalid(v.hco3) THEN 3
  ELSE 0

PH_MIN == 600
PH_MAX == 800
PACO2_MIN == 400
PACO2_MAX == 6000
HCO3_MIN == 80
HCO3_MAX == 2400
\* the ranges the messages print
PH_MSG_MIN == 680
HCO3_MSG_MIN == 200

RangeError(field, x, lo, hi) ==
  [kind |-> "range", field |-> field, value |-> x, lo |-> lo, hi |-> hi]

\* the range checks with the limits themselves rejected
validateInputs_Open(v) ==
  IF FirstMissing(v) # 0
    THEN [kind |-> "missing", field |-> Required[FirstMissing(v)],
          value |-> 0, lo |-> 0, hi |-> 0]
  ELSE IF v.ph.n <= PH_MIN \/ v.ph.n >= PH_MAX
    THEN RangeError("ph", v.ph.n, PH_MSG_MIN, PH_MAX)
  ELSE IF v.paco2.n <= PACO2_MIN \/ v.paco2.n >= PACO2_MAX
    THEN RangeError("paco2", v.paco2.n, PACO2_MIN, PACO2_MAX)
  ELSE IF v.hco3.n <= HCO3_MIN \/ v.hco3.n >= HCO3_MAX
    THEN RangeError("hco3", v.hco3.n, HCO3_MSG_MIN, HCO3_MAX)
  ELSE NoError

\* validateInputs(values): the value stored in this.results.error, NoError
\* when the function returns true
validateInputs(v) ==
  IF FirstMissing(v) # 0
    THEN [kind |-> "missing", field |-> Required[FirstMissing(v)],
          value |-> 0, lo |-> 0, hi |-> 0]
  ELSE IF v.ph.n < PH_MIN \/ v.ph.n > PH_MAX
    THEN RangeError("ph", v.ph.n, PH_MSG_MIN, PH_MAX)
  ELSE IF v.paco2.n < PACO2_MIN \/ v.paco2.n > PACO2_MAX
    THEN RangeError("paco2", v.paco2.n, PACO2_MIN, PACO2_MAX)
  ELSE IF v.hco3.n < HCO3_MIN \/ v.hco3.n > HCO3_MAX
    THEN RangeError("hco3", v.hco3.n, HCO3_MSG_MIN, HCO3_MAX)
  ELSE NoError

(* ------------------- step 1: checkInternalConsistency ------------------ *)

\* Math.pow(10, -ph) * 1e9 in hundredths of nmol/L, tabulated for the ph
\* values of the model (10^(9 - ph) rounded to two decimals)
MeasuredH(ph) ==
  CASE ph = 600 -> 100000
    [] ph = 725 -> 5623
    [] ph = 735 -> 4467
    [] ph = 740 -> 3981
    [] ph = 745 -> 3548
    [] ph = 750 -> 3162
    [] ph = 800 -> 1000

\* difference > acceptableDifference, with calculatedH = 24 * (paco2 / hco3)
\* and acceptableDifference = measuredH * 0.20, cleared of the divisions
Inconsistent(ph, paco2, hco3) ==
  5 * Abs(2400 * paco2 - MeasuredH(ph) * hco3) > MeasuredH(ph) * hco3

checkInternalConsistency(ph, paco2, hco3) ==
  IF hco3 = 0 THEN "Inconsistency: HCO3 cannot be zero."
  ELSE IF Inconsistent(ph, paco2, hco3)
    THEN "Possible inconsistency detected."
  ELSE "Values appear internally consistent."

(* ------------------ step 2: determineAcidemiaAlkalemia ----------------- *)

PH_LOW == 735
PH_HIGH == 745

\* the limits of the normal band taken as abnormal
determineAcidemiaAlkalemia_Closed(ph) ==
  IF ph <= PH_LOW THEN "acidemia"
  ELSE IF ph >= PH_HIGH THEN "alkalemia"
  ELSE "normal"

determineAcidemiaAlkalemia(ph) ==
  IF ph < PH_LOW THEN "acidemia"
  ELSE IF ph > PH_HIGH THEN "alkalemia"
  ELSE "normal"

\* ph.toFixed(2) in the returned text: a string has no toFixed, and the
\* assignment to acidBaseStatus comes before it
determineAcidemiaAlkalemiaThrows(ph) == ph.t = "str"

Step2Text(ph) ==
  IF ph < PH_LOW THEN "Acidemia"
  ELSE IF ph > PH_HIGH THEN "Alkalemia"
  ELSE "Normal pH"

(* ------------------- step 3: identifyPrimaryDisorder ------------------- *)

PACO2_LOW == 1400
PACO2_HIGH == 1800
HCO3_LOW == 880
HCO3_HIGH == 1040

RespAcid == "respiratory acidosis"
RespAlk == "respiratory alkalosis"
MetAcid == "metabolic acidosis"
MetAlk == "metabolic alkalosis"
MixedAcidemia == "mixed acidemia"
MixedAlkalemia == "mixed alkalemia"
MixedCompAcidAlk == "mixed compensated resp acid + met alk"
MixedCompAlkAcid == "mixed compensated resp alk + met acid"
Normal == "normal"
Compensated == "compensated"
HAGMA == "high anion gap metabolic acidosis"
NAGMA == "normal anion gap metabolic acidosis"

\* the respiratory tests with the limits 45 and 35 included
identifyPrimaryDisorder_Closed(status, paco2, hco3) ==
  IF status = "acidemia" THEN
    IF paco2 >= PACO2_HIGH THEN RespAcid
    ELSE IF hco3 < HCO3_LOW THEN MetAcid
    ELSE MixedAcidemia
  ELSE IF status = "alkalemia" THEN
    IF paco2 <= PACO2_LOW THEN RespAlk
    ELSE IF hco3 > HCO3_HIGH THEN MetAlk
    ELSE MixedAlkalemia
  ELSE
    IF paco2 > PACO2_HIGH /\ hco3 > HCO3_HIGH THEN MixedCompAcidAlk
    ELSE IF paco2 < PACO2_LOW /\ hco3 < HCO3_LOW THEN MixedCompAlkAcid
    ELSE IF paco2 >= PACO2_LOW /\ paco2 <= PACO2_HIGH
            /\ hco3 >= HCO3_LOW /\ hco3 <= HCO3_HIGH THEN Normal
    ELSE Compensated

\* the value assigned to this.state.primaryDisorder
identifyPrimaryDisorder(status, paco2, hco3) ==
  IF status = "acidemia" THEN
    IF paco2 > PACO2_HIGH THEN RespAcid
    ELSE IF hco3 < HCO3_LOW THEN MetAcid
    ELSE MixedAcidemia
  ELSE IF status = "alkalemia" THEN
    IF paco2 < PACO2_LOW THEN RespAlk
    ELSE IF hco3 > HCO3_HIGH THEN MetAlk
    ELSE MixedAlkalemia
  ELSE
    IF paco2 > PACO2_HIGH /\ hco3 > HCO3_HIGH THEN MixedCompAcidAlk
    ELSE IF paco2 < PACO2_LOW /\ hco3 < HCO3_LOW THEN MixedCompAlkAcid
    ELSE IF paco2 >= PACO2_LOW /\ paco2 <= PACO2_HIGH
            /\ hco3 >= HCO3_LOW /\ hco3 <= HCO3_HIGH THEN Normal
    ELSE IF paco2 > PACO2_HIGH \/ hco3 > HCO3_HIGH THEN Compensated
    ELSE IF paco2 < PACO2_LOW \/ hco3 < HCO3_LOW THEN Compensated
    ELSE Normal

\* the text the function returns ('Undetermined' when no branch assigns)
Step3Text(status, paco2, hco3) ==
  LET d == identifyPrimaryDisorder(status, paco2, hco3) IN
  CASE d = RespAcid -> "Primary Respiratory Acidosis"
    [] d = MetAcid -> "Primary Metabolic Acidosis"
    [] d = MixedAcidemia -> "Acidemia present, mixed disorder likely"
    [] d = RespAlk -> "Primary Respiratory Alkalosis"
    [] d = MetAlk -> "Primary Metabolic Alkalosis"
    [] d = MixedAlkalemia -> "Alkalemia present, mixed disorder likely"
    [] d = MixedCompAcidAlk -> "Normal pH with high PaCO2 and high HCO3"
    [] d = MixedCompAlkAcid -> "Normal pH with low PaCO2 and low HCO3"
    [] d = Normal -> "Normal acid-base status"
    [] d = Compensated -> "Normal pH with abnormal PaCO2 or HCO3"
    [] OTHER -> "Undetermined"

(* -------------------- step 4: evaluateCompensation --------------------- *)

NORMAL_PACO2 == 1600
NORMAL_HCO3 == 960
RANGE_MET_ACID == 80
RANGE_MET_ALK == 200
RANGE_RESP == 120

\* primary.includes('mixed')
IncludesMixed(primary) ==
  primary \in {MixedAcidemia, MixedAlkalemia, MixedCompAcidAlk, MixedCompAlkAcid}

\* the guard of the early return
CompensationSkipped(primary) ==
  primary = Null \/ IncludesMixed(primary) \/ primary = Normal
    \/ primary = Compensated

\* (1.5 * hco3) + 8
WintersExpected(hco3) == (3 * hco3) \div 2 + 320

\* 40 + (0.6 * deltaHco3)
MetAlkExpected(hco3) == 1600 + (3 * (hco3 - NORMAL_HCO3)) \div 5

\* 24 + (deltaPaco2 * 0.1) and 24 + (deltaPaco2 * 0.2)
ExpectedAcuteHCO3(primary, paco2) ==
  IF primary = RespAcid
    THEN 960 + (paco2 - NORMAL_PACO2) \div 10
    ELSE 960 + (paco2 - NORMAL_PACO2) \div 5

\* 24 + (deltaPaco2 * 0.35) and 24 + (deltaPaco2 * 0.5)
ExpectedChronicHCO3(primary, paco2) ==
  IF primary = RespAcid
    THEN 960 + (7 * (paco2 - NORMAL_PACO2)) \div 20
    ELSE 960 + (paco2 - NORMAL_PACO2) \div 2

\* a tie resolved to the acute expectation
CloserToAcute_Tie(measured, acute, chronic) ==
  Abs(measured - acute) <= Abs(measured - chronic)

\* the test that selects the acute expectation
CloserToAcute(measured, acute, chronic) ==
  Abs(measured - acute) < Abs(measured - chronic)

\* the type determined for a metabolic primary as well
CompensationTypeOf_Any(primary, paco2, hco3) ==
  IF CloserToAcute(hco3, ExpectedAcuteHCO3(primary, paco2),
                   ExpectedChronicHCO3(primary, paco2))
    THEN "acute" ELSE "chronic"

CompensationTypeOf(primary, paco2, hco3) ==
  IF primary \in {RespAcid, RespAlk}
    THEN IF CloserToAcute(hco3, ExpectedAcuteHCO3(primary, paco2),
                          ExpectedChronicHCO3(primary, paco2))
           THEN "acute" ELSE "chronic"
    ELSE Null

ExpectedCompensation(primary, paco2, hco3) ==
  CASE primary = MetAcid -> WintersExpected(hco3)
    [] primary = MetAlk -> MetAlkExpected(hco3)
    [] primary \in {RespAcid, RespAlk} ->
         IF CompensationTypeOf(primary, paco2, hco3) = "acute"
           THEN ExpectedAcuteHCO3(primary, paco2)
           ELSE ExpectedChronicHCO3(primary, paco2)

CompensationRange(primary) ==
  CASE primary = MetAcid -> RANGE_MET_ACID
    [] primary = MetAlk -> RANGE_MET_ALK
    [] primary \in {RespAcid, RespAlk} -> RANGE_RESP

\* measuredValue of the switch: paco2 for a metabolic primary, hco3 otherwise
MeasuredValue(primary, paco2, hco3) ==
  IF primary \in {MetAcid, MetAlk} THEN paco2 ELSE hco3

\* the tolerance bound itself taken as outside
WithinRange_Open(measured, expected, range) == Abs(measured - expected) < range

\* Math.abs(measuredValue - expected) <= range
WithinRange(measured, expected, range) == Abs(measured - expected) <= range

\* the labels of the two directions exchanged
DisorderBelow_Swapped(primary) ==
  IF primary \in {MetAcid, MetAlk} THEN RespAcid ELSE MetAlk

\* the label pushed by the branch "measuredValue < expected - range"
DisorderBelow(primary) ==
  IF primary \in {MetAcid, MetAlk} THEN RespAlk ELSE MetAcid

\* the label pushed by the final else branch
DisorderAbove(primary) ==
  IF primary \in {MetAcid, MetAlk} THEN RespAcid ELSE MetAlk

\* this.state after evaluateCompensation(paco2, hco3)
evaluateCompensation(st, paco2, hco3) ==
  LET primary  == st.primaryDisorder
      expected == ExpectedCompensation(primary, paco2, hco3)
      measured == MeasuredValue(primary, paco2, hco3)
      range    == CompensationRange(primary)
      typed    == [st EXCEPT
                     !.compensationType = CompensationTypeOf(primary, paco2, hco3),
                     !.expectedCompensationValue = Num(expected)]
  IN IF CompensationSkipped(primary) THEN st
     ELSE IF WithinRange(measured, expected, range)
       THEN [typed EXCEPT !.compensationAssessment = "appropriate"]
     ELSE IF measured < expected - range
       THEN [typed EXCEPT !.compensationAssessment = "mixed",
               !.additionalDisorders = Append(@, DisorderBelow(primary))]
     ELSE [typed EXCEPT !.compensationAssessment = "mixed",
             !.additionalDisorders = Append(@, DisorderAbove(primary))]

\* measuredValue.toFixed(1) in resultText: measuredValue is the paco2 or hco3
\* as it was passed, and a string has no toFixed
evaluateCompensationThrows(primary, paco2, hco3) ==
  /\ ~CompensationSkipped(primary)
  /\ (IF primary \in {MetAcid, MetAlk} THEN paco2 ELSE hco3).t = "str"

\* this.state when measuredValue.toFixed throws: the expectation (and the
\* compensation type of a respiratory primary) is stored, the assessment not
evaluateCompensationThrown(st, paco2, hco3) ==
  [st EXCEPT
     !.compensationType = CompensationTypeOf(st.primaryDisorder, paco2, hco3),
     !.expectedCompensationValue =
        Num(ExpectedCompensation(st.primaryDisorder, paco2, hco3))]

\* the text evaluateCompensation returns, from the state it leaves
Step4Text(old, new) ==
  LET primary == old.primaryDisorder
      lead == CASE primary = MetAcid -> "Expected PaCO2 (Winter's)."
                [] primary = MetAlk -> "Expected PaCO2."
                [] new.compensationType = "acute" -> "Acute Compensation."
                [] OTHER -> "Chronic Compensation."
  IN IF CompensationSkipped(primary)
       THEN IF primary = Compensated
              THEN "Full compensation (pH is within normal range)."
              ELSE "Compensation assessment skipped (Mixed, Normal, or Undetermined Primary)."
     ELSE IF new.compensationAssessment = "appropriate"
       THEN lead \o " Compensation is appropriate."
     ELSE IF new.compensationAssessment = "mixed"
       THEN lead \o " Suggests a superimposed "
              \o (IF Len(new.additionalDisorders) > 0
                    THEN new.additionalDisorders[Len(new.additionalDisorders)]
                    ELSE "unknown") \o "."
     ELSE lead \o " Compensation assessment unclear."

(* ---------------------- step 5: calculateAnionGap ---------------------- *)

ALBUMIN_NORMAL == 160
AG_THRESHOLD == 480

\* the correction applied to a negative albumin as well
AlbuminCorrects_Negative(albumin) ==
  /\ albumin.t # "undefined"
  /\ ~isNaN(parseFloat(albumin))
  /\ parseFloat(albumin).n < ALBUMIN_NORMAL

\* the condition under which the albumin correction is applied
AlbuminCorrects(albumin) ==
  /\ albumin.t # "undefined"
  /\ ~isNaN(parseFloat(albumin))
  /\ parseFloat(albumin).n < ALBUMIN_NORMAL
  /\ parseFloat(albumin).n >= 0

\* 2.5 * (4.0 - albuminNum)
AlbuminCorrection(albumin) ==
  (5 * (ALBUMIN_NORMAL - parseFloat(albumin).n)) \div 2

\* na - (cl + hco3)
AnionGapOf(na, cl, hco3) == ToNumber(na) - (ToNumber(cl) + ToNumber(hco3))

CorrectedAnionGapOf(ag, albumin) ==
  IF AlbuminCorrects(albumin) THEN ag + AlbuminCorrection(albumin) ELSE ag

\* a gap of 12 taken as elevated
GapElevated_Closed(ag) == ag >= AG_THRESHOLD

\* agToCheck > 12
GapElevated(ag) == ag > AG_THRESHOLD

Includes(seq, x) == \E i \in 1..Len(seq) : seq[i] = x

\* the label assigned as the whole list instead of pushed
calculateAnionGap_Assigns(st, na, cl, hco3, albumin) ==
  LET ag  == AnionGapOf(na, cl, hco3)
      cag == CorrectedAnionGapOf(ag, albumin)
      set == [st EXCEPT !.anionGap = Num(ag), !.correctedAnionGap = Num(cag)]
  IN IF isNaN(na) \/ isNaN(cl) \/ isNaN(hco3) THEN st
     ELSE IF GapElevated(cag) /\ st.primaryDisorder # MetAcid
             /\ ~Includes(st.additionalDisorders, HAGMA)
       THEN [set EXCEPT !.additionalDisorders = <<HAGMA>>]
     ELSE set

\* the push of the label also marking the compensation as mixed
calculateAnionGap_Remarks(st, na, cl, hco3, albumin) ==
  LET ag  == AnionGapOf(na, cl, hco3)
      cag == CorrectedAnionGapOf(ag, albumin)
      set == [st EXCEPT !.anionGap = Num(ag), !.correctedAnionGap = Num(cag)]
  IN IF isNaN(na) \/ isNaN(cl) \/ isNaN(hco3) THEN st
     ELSE IF GapElevated(cag) /\ st.primaryDisorder # MetAcid
             /\ ~Includes(st.additionalDisorders, HAGMA)
       THEN [set EXCEPT !.additionalDisorders = Append(@, HAGMA),
               !.compensationAssessment = "mixed"]
     ELSE set

\* calculateAnionGap appending its label whatever the primary disorder is
calculateAnionGap_AnyPrimary(st, na, cl, hco3, albumin) ==
  LET ag  == AnionGapOf(na, cl, hco3)
      cag == CorrectedAnionGapOf(ag, albumin)
      set == [st EXCEPT !.anionGap = Num(ag), !.correctedAnionGap = Num(cag)]
  IN IF isNaN(na) \/ isNaN(cl) \/ isNaN(hco3) THEN st
     ELSE IF GapElevated(cag) /\ ~Includes(st.additionalDisorders, HAGMA)
       THEN [set EXCEPT !.additionalDisorders = Append(@, HAGMA)]
     ELSE set

\* this.state after calculateAnionGap(na, cl, hco3, albumin)
calculateAnionGap(st, na, cl, hco3, albumin) ==
  LET ag  == AnionGapOf(na, cl, hco3)
      cag == CorrectedAnionGapOf(ag, albumin)
      set == [st EXCEPT !.anionGap = Num(ag), !.correctedAnionGap = Num(cag)]
  IN IF isNaN(na) \/ isNaN(cl) \/ isNaN(hco3) THEN st
     ELSE IF GapElevated(cag) /\ st.primaryDisorder # MetAcid
             /\ ~Includes(st.additionalDisorders, HAGMA)
       THEN [set EXCEPT !.additionalDisorders = Append(@, HAGMA)]
     ELSE set

Step5Text(old, new, na, cl, hco3, albumin) ==
  IF isNaN(na) \/ isNaN(cl) \/ isNaN(hco3)
    THEN "Cannot calculate Anion Gap: Invalid Na, Cl, or HCO3 value."
  ELSE (IF AlbuminCorrects(albumin) THEN "Anion Gap. Corrected AG."
        ELSE IF albumin.t # "undefined"
                /\ (isNaN(parseFloat(albumin)) \/ parseFloat(albumin).n < 0)
          THEN "Anion Gap. (Invalid albumin value provided for correction)."
        ELSE IF albumin.t # "undefined"
          THEN "Anion Gap. (Albumin correction not needed)."
        ELSE "Anion Gap.")
       \o (IF GapElevated(new.correctedAnionGap.n)
             THEN IF Len(new.additionalDisorders) > Len(old.additionalDisorders)
                    THEN " Elevated Anion Gap. Suggests additional High AG Metabolic Acidosis."
                    ELSE " Elevated Anion Gap."
             ELSE " Normal Anion Gap.")

\* the step 5 branch of analyze
Step5Runs(v) ==
  v.na.t # "undefined" /\ v.cl.t # "undefined" /\ v.hco3.t # "undefined"

(* ---------------------- step 6: evaluateDeltaRatio --------------------- *)

NORMAL_AG == 480
NORMAL_AG_FLOOR == 120
AG_ELEVATED == 480

\* normalAG after the albumin adjustment
NormalAG(albumin) ==
  IF AlbuminCorrects(albumin)
    THEN Max(NORMAL_AG_FLOOR, NORMAL_AG - AlbuminCorrection(albumin))
    ELSE NORMAL_AG

\* anionGap - normalAG
DeltaAG(ag, albumin) == ag - NormalAG(albumin)

\* 24 - hco3
DeltaHCO3(hco3) == NORMAL_HCO3 - hco3

\* this.state.deltaRatio < 1.0, for deltaHCO3 > 0
RatioBelowOne(dag, dhco3) == dag < dhco3

\* a ratio of 2.0 taken as above the band
RatioAboveTwo_Closed(dag, dhco3) == dag >= 2 * dhco3

\* this.state.deltaRatio > 2.0, for deltaHCO3 > 0
RatioAboveTwo(dag, dhco3) == dag > 2 * dhco3

PushUnique(seq, x) == IF Includes(seq, x) THEN seq ELSE Append(seq, x)

\* the branch for a negative delta HCO3 left out
evaluateDeltaRatio_NoNegative(st, ag, hco3, albumin) ==
  LET dag == DeltaAG(ag, albumin)
      dh  == DeltaHCO3(hco3)
      rat == [st EXCEPT !.deltaRatio = [t |-> "num", n |-> dag, d |-> dh]]
  IN IF dh = 0
       THEN [st EXCEPT !.deltaRatioAssessment =
               "concurrent met alk likely (delta HCO3 is zero)"]
     ELSE IF RatioBelowOne(dag, dh)
       THEN [rat EXCEPT !.deltaRatioAssessment = "concurrent NAGMA",
               !.additionalDisorders = PushUnique(@, NAGMA)]
     ELSE IF RatioAboveTwo(dag, dh)
       THEN [rat EXCEPT !.deltaRatioAssessment = "concurrent met alk",
               !.additionalDisorders = PushUnique(@, MetAlk)]
     ELSE [rat EXCEPT !.deltaRatioAssessment = "pure HAGMA"]

\* this.state after evaluateDeltaRatio(anionGap, hco3, albumin); anionGap and
\* hco3 are numbers at the only call, so the isNaN guard does not fire
evaluateDeltaRatio(st, ag, hco3, albumin) ==
  LET dag == DeltaAG(ag, albumin)
      dh  == DeltaHCO3(hco3)
      rat == [st EXCEPT !.deltaRatio = [t |-> "num", n |-> dag, d |-> dh]]
  IN IF dh = 0
       THEN [st EXCEPT !.deltaRatioAssessment =
               "concurrent met alk likely (delta HCO3 is zero)"]
     ELSE IF dh < 0
       THEN [st EXCEPT !.deltaRatioAssessment =
               "concurrent met alk likely (delta HCO3 negative)"]
     ELSE IF RatioBelowOne(dag, dh)
       THEN [rat EXCEPT !.deltaRatioAssessment = "concurrent NAGMA",
               !.additionalDisorders = PushUnique(@, NAGMA)]
     ELSE IF RatioAboveTwo(dag, dh)
       THEN [rat EXCEPT !.deltaRatioAssessment = "concurrent met alk",
               !.additionalDisorders = PushUnique(@, MetAlk)]
     ELSE [rat EXCEPT !.deltaRatioAssessment = "pure HAGMA"]

DeltaRatioText(new) ==
  CASE new.deltaRatioAssessment = "concurrent met alk likely (delta HCO3 is zero)"
         -> "Delta Ratio not calculable."
    [] new.deltaRatioAssessment = "concurrent met alk likely (delta HCO3 negative)"
         -> "Delta Ratio interpretation complex."
    [] new.deltaRatioAssessment = "concurrent NAGMA"
         -> "Delta Ratio. Ratio < 1.0 suggests concurrent NAGMA."
    [] new.deltaRatioAssessment = "concurrent met alk"
         -> "Delta Ratio. Ratio > 2.0 suggests concurrent Metabolic Alkalosis."
    [] OTHER -> "Delta Ratio. Ratio 1-2 is consistent with uncomplicated HAGMA."

\* the gap before the albumin correction
AgToCheck_Raw(st) == st.anionGap

\* const agToCheck = this.state.correctedAnionGap ?? this.state.anionGap
AgToCheck(st) ==
  IF st.correctedAnionGap.t # "null" THEN st.correctedAnionGap ELSE st.anionGap

\* the if-chain without its final else: step6 keeps its empty text
Step6Branch_NoSkip(st) ==
  LET ag == AgToCheck(st) IN
  IF ag.t # "null" /\ ag.n > AG_ELEVATED /\ st.primaryDisorder = MetAcid
    THEN "evaluate"
  ELSE IF ag.t # "null" /\ ag.n <= AG_ELEVATED /\ st.primaryDisorder = MetAcid
    THEN "Not Applicable: Anion gap is not elevated."
  ELSE IF st.primaryDisorder # MetAcid
    THEN "Not Applicable: Primary disorder is not metabolic acidosis."
  ELSE ""

\* the evaluator entered on an elevated gap whatever the primary disorder
Step6Branch_AnyPrimary(st) ==
  LET ag == AgToCheck(st) IN
  IF ag.t # "null" /\ ag.n > AG_ELEVATED
    THEN "evaluate"
  ELSE IF ag.t # "null" /\ ag.n <= AG_ELEVATED /\ st.primaryDisorder = MetAcid
    THEN "Not Applicable: Anion gap is not elevated."
  ELSE IF st.primaryDisorder # MetAcid
    THEN "Not Applicable: Primary disorder is not metabolic acidosis."
  ELSE "Skipped: Anion gap calculation was skipped or failed."

\* which branch of the step 6 if-chain of analyze is taken
Step6Branch(st) ==
  LET ag == AgToCheck(st) IN
  IF ag.t # "null" /\ ag.n > AG_ELEVATED /\ st.primaryDisorder = MetAcid
    THEN "evaluate"
  ELSE IF ag.t # "null" /\ ag.n <= AG_ELEVATED /\ st.primaryDisorder = MetAcid
    THEN "Not Applicable: Anion gap is not elevated."
  ELSE IF st.primaryDisorder # MetAcid
    THEN "Not Applicable: Primary disorder is not metabolic acidosis."
  ELSE "Skipped: Anion gap calculation was skipped or failed."

(* --------------------- generateFinalInterpretation --------------------- *)

FINAL_AG_NORMAL == 480

\* primaryDisorder.replace(/_/g, ' ').replace('compensated', '').trim()
PrimaryName(primary) ==
  CASE primary = Compensated -> ""
    [] primary = MixedCompAcidAlk -> "mixed  resp acid + met alk"
    [] primary = MixedCompAlkAcid -> "mixed  resp alk + met acid"
    [] OTHER -> primary

\* [...new Set(additionalDisorders)]: first occurrences, in order
RECURSIVE Unique(_)
Unique(seq) ==
  IF seq = <<>> THEN <<>>
  ELSE LET front == Unique(SubSeq(seq, 1, Len(seq) - 1))
           last  == seq[Len(seq)]
       IN IF Includes(front, last) THEN front ELSE Append(front, last)

\* the predicate of uniqueAdditional.filter
KeepsDisorder(st, disorder) ==
  LET primary == st.primaryDisorder IN
  ~ \/ primary = MetAcid /\ disorder = HAGMA
    \/ primary = MetAcid /\ disorder = NAGMA
         /\ ToNumber(st.anionGap) <= FINAL_AG_NORMAL
    \/ primary = MetAlk /\ disorder = MetAlk
    \/ primary = RespAcid /\ disorder = RespAcid
    \/ primary = RespAlk /\ disorder = RespAlk

RECURSIVE Filter(_, _)
Filter(st, seq) ==
  IF seq = <<>> THEN <<>>
  ELSE LET front == Filter(st, SubSeq(seq, 1, Len(seq) - 1))
           last  == seq[Len(seq)]
       IN IF KeepsDisorder(st, last) THEN Append(front, last) ELSE front

FilteredAdditional(st) == Filter(st, Unique(st.additionalDisorders))

\* labels.join(' and ')
RECURSIVE Join(_)
Join(seq) ==
  IF seq = <<>> THEN ""
  ELSE IF Len(seq) = 1 THEN seq[1]
  ELSE Join(SubSeq(seq, 1, Len(seq) - 1)) \o " and " \o seq[Len(seq)]

\* the test of acidBaseStatus left out
CompensationPhrase_NoStatus(st) ==
  IF st.primaryDisorder = Compensated
    THEN " with complete compensation"
  ELSE IF st.compensationAssessment = "appropriate"
    THEN " with expected compensation"
  ELSE ""

CompensationPhrase(st) ==
  IF st.primaryDisorder = Compensated \/ st.acidBaseStatus = "normal"
    THEN " with complete compensation"
  ELSE IF st.compensationAssessment = "appropriate"
    THEN " with expected compensation"
  ELSE ""

\* the early return for a normal primary disorder left out
generateFinalInterpretation_NoNormal(res, st) ==
  IF res.error # NoError THEN "Analysis Error: " \o res.error.kind
  ELSE IF st.primaryDisorder = Null \/ st.primaryDisorder = "Undetermined"
    THEN "Unable to determine final interpretation."
  ELSE "Primary " \o PrimaryName(st.primaryDisorder) \o CompensationPhrase(st)
         \o (IF FilteredAdditional(st) # <<>>
               THEN " and superimposed " \o Join(FilteredAdditional(st))
               ELSE "")
         \o "."

generateFinalInterpretation(res, st) ==
  IF res.error # NoError THEN "Analysis Error: " \o res.error.kind
  ELSE IF st.primaryDisorder = Null \/ st.primaryDisorder = "Undetermined"
    THEN "Unable to determine final interpretation."
  ELSE IF st.primaryDisorder = Normal THEN "Normal acid-base status."
  ELSE "Primary " \o PrimaryName(st.primaryDisorder) \o CompensationPhrase(st)
         \o (IF FilteredAdditional(st) # <<>>
               THEN " and superimposed " \o Join(FilteredAdditional(st))
               ELSE "")
         \o "."

(* ------------------------------- inputs -------------------------------- *)

\* ph in hundredths: missing, null, not numeric, and numbers on and beside
\* the limits 6.0, 7.35, 7.45 and 8.0
PhValues ==
  {Undef, NullV, NaNV}
    \cup {P(x) : x \in {595, 600, 725, 735, 740, 745, 750, 800, 805}}

\* paco2 in halves of a mmHg: the limits 10, 35, 45, 150 and beside them, and
\* values that put the measured value on and beside each tolerance bound
Paco2Values ==
  {Undef, NullV, NaNV}
    \cup {H(x) : x \in {19, 20, 40, 60, 69, 70, 80, 90, 91, 120, 300, 301}}

\* hco3 in halves of a mmol/L: the limits 2, 22, 26, 60 and beside them, and
\* values on and beside each expected value, tie and tolerance bound
Hco3Values ==
  {Undef, NullV, NaNV}
    \cup {H(x) : x \in {3, 4, 22, 26, 30, 34, 38, 39, 40, 43, 44, 46, 48, 52,
                        53, 57, 68, 83, 98, 120, 121}}

NaValues == {Undef, NullV, NaNV, H(280)}
ClValues == {Undef, NaNV, H(190), H(200), H(208), H(226)}
AlbuminValues == {Undef, NaNV, H(-1), H(0), H(4), H(8)}

Values(ph, paco2, hco3, na, cl, albumin) ==
  [ph |-> ph, paco2 |-> paco2, hco3 |-> hco3,
   na |-> na, cl |-> cl, albumin |-> albumin]

\* every required triple, without optional values and with a plain
\* electrolyte pair
RequiredInputs ==
  {Values(ph, paco2, hco3, o[1], o[2], Undef) :
     ph \in PhValues, paco2 \in Paco2Values, hco3 \in Hco3Values,
     o \in {<<Undef, Undef>>, <<H(280), H(200)>>}}

\* every combination of optional values, on required triples of each kind of
\* primary disorder
OptionalInputs ==
  {Values(P(ph), H(60), H(hco3), na, cl, albumin) :
     ph \in {725, 740, 750}, hco3 \in {26, 30, 34, 48},
     na \in NaValues, cl \in ClValues, albumin \in AlbuminValues}

\* every combination of optional values on a normal triple
NormalInputs ==
  {Values(P(740), H(80), H(48), na, cl, albumin) :
     na \in NaValues, cl \in ClValues, albumin \in AlbuminValues}

\* a key the analyzer does not know (k, the potassium of the upload form)
WithUnknownKey(v, x) ==
  [key \in DOMAIN v \cup {"k"} |-> IF key = "k" THEN x ELSE v[key]]

\* inputs that carry an unknown key, with and without the optional values
UnknownKeyInputs ==
  {WithUnknownKey(Values(P(ph), H(80), H(hco3), o[1], o[2], o[3]), x) :
     ph \in {725, 740, 750}, hco3 \in {30, 48, 60},
     o \in {<<Undef, Undef, Undef>>, <<H(280), H(200), Undef>>,
            <<H(280), H(200), H(4)>>},
     x \in {H(8), NaNV}}

Inputs ==
  RequiredInputs \cup OptionalInputs \cup NormalInputs \cup UnknownKeyInputs

(* ------------------- initial state of the components ------------------- *)

\* a message passed to onError, held in the shape of the analyzer's errors
Message(text) ==
  [kind |-> "message", field |-> text, value |-> 0, lo |-> 0, hi |-> 0]

\* useState(null) of results
NoResults == [t |-> "null"]

\* App: the useState values, the position of handleAnalysis and the
\* argument it was called with
AppInit ==
  [activeTab |-> "manual", results |-> NoResults, isLoading |-> FALSE,
   error |-> NoError, isResetting |-> FALSE,
   at |-> "idle", inputValues |-> NoValues]

\* the keys of physiologicalRanges, in the order of the object literal
FormKeys ==
  <<"ph", "paco2", "hco3", "pao2", "na", "cl", "be", "sao2", "k", "albumin">>

FormKeySet == {FormKeys[i] : i \in 1..Len(FormKeys)}

\* the text of an input field: '' , a text parseFloat gives NaN for, or a
\* text parseFloat gives the number n for
EmptyText == [t |-> "empty", n |-> 0]
NotANumberText == [t |-> "text", n |-> 0]
NumberText(n) == [t |-> "num", n |-> n]

\* ManualInputForm: initialFormState and useState({}) of errors, an absent
\* error being ''
FormInit ==
  [formValues |-> [key \in FormKeySet |-> EmptyText],
   errors |-> [key \in FormKeySet |-> ""]]

\* FileUpload: the useState values and pdfDocRef (0 is null, [] or no page;
\* ocrResults and pdfThumbnails hold the number of the job they come from),
\* and the asynchronous work of the component that has not completed: the
\* FileReader reads, the PDF documents being loaded and drawn, the pages
\* being rendered, the fetch requests, the getUserMedia calls.  jobs counts
\* the files, pastes and page selections handed to the component.
UploadInit ==
  [isProcessing |-> FALSE, ocrResults |-> 0, ocrError |-> FALSE,
   loadingMessage |-> "", showCamera |-> FALSE, pdfThumbnails |-> 0,
   selectedPdfPage |-> 0, pdfDocRef |-> 0,
   reading |-> {}, loadingPdf |-> {}, drawing |-> {}, rendering |-> {},
   requests |-> {}, camera |-> 0, jobs |-> 0]

(* ------------------------------- actions ------------------------------- *)

\* the analyze calls of the re-use specification
MaxCalls == 3

\* new ABGAnalyzer()
Init ==
  /\ pc = "idle"
  /\ values = NoValues
  /\ results = [k \in {} |-> 0]
  /\ state = [k \in {} |-> 0]
  /\ calls = 0
  /\ returned = <<>>
  /\ stateRef = 1
  /\ app = AppInit
  /\ form = FormInit
  /\ upload = UploadInit

\* the reset keeping the additionalDisorders array of the previous call
Analyze_KeepsDisorders(v) ==
  /\ pc = "idle"
  /\ calls' = calls + 1
  /\ values' = v
  /\ state' = [InitState EXCEPT !.additionalDisorders =
                  IF calls = 0 THEN <<>> ELSE state.additionalDisorders]
  /\ results' = [InitResults EXCEPT !.error = validateInputs(v)]
  /\ pc' = IF validateInputs(v) # NoError THEN "return" ELSE "step1"
  /\ stateRef' = stateRef + 1
  /\ UNCHANGED returned

\* the reset clearing the fields of the object this.state refers to, in
\* place of assigning a new object
Analyze_InPlace(v) ==
  /\ pc = "idle"
  /\ calls' = calls + 1
  /\ values' = v
  /\ state' = InitState
  /\ results' = [InitResults EXCEPT !.error = validateInputs(v)]
  /\ pc' = IF validateInputs(v) # NoError THEN "return" ELSE "step1"
  /\ stateRef' = IF calls = 0 THEN stateRef + 1 ELSE stateRef
  /\ UNCHANGED returned

\* analyze(values) up to the end of input validation
Analyze(v) ==
  /\ pc = "idle"
  /\ calls' = calls + 1
  /\ values' = v
  /\ state' = InitState
  /\ results' = [InitResults EXCEPT !.error = validateInputs(v)]
  /\ pc' = IF validateInputs(v) # NoError THEN "return" ELSE "step1"
  /\ stateRef' = stateRef + 1
  /\ UNCHANGED returned

\* the catch block with the step texts cleared
Catch_Clears(res, message) ==
  [InitResults EXCEPT
     !.error = Thrown(message),
     !.finalInterpretation = "Analysis incomplete due to error."]

\* the catch block of analyze: this.results after it
Catch(res, message) ==
  [res EXCEPT
     !.error = Thrown(message),
     !.finalInterpretation = "Analysis incomplete due to error."]

Step1 ==
  /\ pc = "step1"
  /\ results' = [results EXCEPT !.step1 =
        checkInternalConsistency(values.ph.n, values.paco2.n, values.hco3.n)]
  /\ pc' = "step2"
  /\ UNCHANGED <<values, state, calls, returned, stateRef, ui>>

Step2 ==
  /\ pc = "step2"
  /\ state' = [state EXCEPT
        !.acidBaseStatus = determineAcidemiaAlkalemia(values.ph.n)]
  /\ IF determineAcidemiaAlkalemiaThrows(values.ph)
       THEN /\ results' = Catch(results, "ph.toFixed is not a function")
            /\ pc' = "return"
       ELSE /\ results' = [results EXCEPT !.step2 = Step2Text(values.ph.n)]
            /\ pc' = "step3"
  /\ UNCHANGED <<values, calls, returned, stateRef, ui>>

Step3 ==
  /\ pc = "step3"
  /\ state' = [state EXCEPT !.primaryDisorder =
        identifyPrimaryDisorder(state.acidBaseStatus, values.paco2.n,
                                values.hco3.n)]
  /\ results' = [results EXCEPT !.step3 =
        Step3Text(state.acidBaseStatus, values.paco2.n, values.hco3.n)]
  /\ pc' = "step4"
  /\ UNCHANGED <<values, calls, returned, stateRef, ui>>

Step4 ==
  /\ pc = "step4"
  /\ IF evaluateCompensationThrows(state.primaryDisorder, values.paco2,
                                   values.hco3)
       THEN /\ state' = evaluateCompensationThrown(state, values.paco2.n,
                                                   values.hco3.n)
            /\ results' =
                 Catch(results, "measuredValue.toFixed is not a function")
            /\ pc' = "return"
       ELSE /\ state' = evaluateCompensation(state, values.paco2.n,
                                             values.hco3.n)
            /\ results' = [results EXCEPT !.step4 = Step4Text(state, state')]
            /\ pc' = "step5"
  /\ UNCHANGED <<values, calls, returned, stateRef, ui>>

Step5 ==
  /\ pc = "step5"
  /\ IF Step5Runs(values)
       THEN /\ state' = calculateAnionGap(state, values.na, values.cl,
                                          values.hco3, values.albumin)
            /\ results' = [results EXCEPT !.step5 =
                 Step5Text(state, state', values.na, values.cl, values.hco3,
                           values.albumin)]
       ELSE /\ state' = [state EXCEPT !.anionGap = NullV]
            /\ results' = [results EXCEPT !.step5 =
                 "Skipped: Na and Cl values required for Anion Gap calculation."]
  /\ pc' = "step6"
  /\ UNCHANGED <<values, calls, returned, stateRef, ui>>

Step6 ==
  /\ pc = "step6"
  /\ IF Step6Branch(state) = "evaluate"
       THEN /\ state' = evaluateDeltaRatio(state, AgToCheck(state).n,
                                           values.hco3.n, Undef)
            /\ results' = [results EXCEPT !.step6 = DeltaRatioText(state')]
       ELSE /\ state' = state
            /\ results' = [results EXCEPT !.step6 = Step6Branch(state)]
  /\ pc' = "final"
  /\ UNCHANGED <<values, calls, returned, stateRef, ui>>

Final ==
  /\ pc = "final"
  /\ results' = [results EXCEPT !.finalInterpretation =
        generateFinalInterpretation(results, state)]
  /\ pc' = "return"
  /\ UNCHANGED <<values, state, calls, returned, stateRef, ui>>

\* return { ...this.results, state: this.state }: the caller holds the
\* returned value, kept here as it is at the return, with the input, the
\* number of the call and the identity of the state object
Return ==
  /\ pc = "return"
  /\ pc' = "idle"
  /\ returned' = Append(returned, [input |-> values, results |-> results,
                                   state |-> state, call |-> calls,
                                   ref |-> stateRef])
  /\ UNCHANGED <<values, results, state, calls, stateRef, ui>>

\* one call of analyze on a new analyzer
AnalyzeOnce ==
  /\ calls = 0
  /\ \E v \in Inputs : Analyze(v)
  /\ UNCHANGED ui

Next ==
  \/ AnalyzeOnce
  \/ Step1
  \/ Step2
  \/ Step3
  \/ Step4
  \/ Step5
  \/ Step6
  \/ Final
  \/ Return

Spec == Init /\ [][Next]_vars

(* -------------------- analyze on numeric strings ----------------------- *)

StrH(x) == Str(20 * x)

\* required values passed as numbers and as numeric strings, on triples of
\* each kind of primary disorder
TextInputs ==
  {Values(ph, paco2, H(hco3), o[1], o[2], Undef) :
     ph \in {P(725), P(740), P(750), Str(725), Str(740), Str(750)},
     paco2 \in {H(60), H(100), StrH(60), StrH(100)},
     hco3 \in {26, 48, 60},
     o \in {<<Undef, Undef>>, <<H(280), H(200)>>}}

\* one call of analyze whose ph or paco2 may be a numeric string
AnalyzeText ==
  /\ calls = 0
  /\ \E v \in TextInputs : Analyze(v)
  /\ UNCHANGED ui

NextText ==
  \/ AnalyzeText
  \/ Step1
  \/ Step2
  \/ Step3
  \/ Step4
  \/ Step5
  \/ Step6
  \/ Final
  \/ Return

SpecText == Init /\ [][NextText]_vars

(* ------------------ analyze calls on analyzers in use ------------------ *)

\* inputs of the repeated calls: two analyses that append disorders, a normal
\* one, a missing and an out-of-range value, and two that throw in a stage
ReuseInputs ==
  {Values(P(725), H(60), H(26), H(280), H(200), H(4)),
   Values(P(750), H(60), H(60), H(280), H(200), Undef),
   Values(P(740), H(80), H(48), Undef, Undef, Undef),
   Values(Undef, H(80), H(48), Undef, Undef, Undef),
   Values(P(595), H(80), H(48), Undef, Undef, Undef),
   Values(Str(725), H(80), H(48), Undef, Undef, Undef),
   Values(P(725), StrH(60), H(26), H(280), H(200), Undef)}

\* a further call of analyze on the analyzer, whatever it did before
AnalyzeAgain ==
  /\ Len(returned) < MaxCalls
  /\ \E v \in ReuseInputs : Analyze(v)
  /\ UNCHANGED ui

\* new ABGAnalyzer(): another analyzer, with nothing of the used one
Construct ==
  /\ pc = "idle"
  /\ calls > 0
  /\ Len(returned) < MaxCalls
  /\ calls' = 0
  /\ values' = NoValues
  /\ results' = [k \in {} |-> 0]
  /\ state' = [k \in {} |-> 0]
  /\ stateRef' = stateRef + 1
  /\ UNCHANGED <<pc, returned, ui>>

NextReuse ==
  \/ AnalyzeAgain
  \/ Construct
  \/ Step1
  \/ Step2
  \/ Step3
  \/ Step4
  \/ Step5
  \/ Step6
  \/ Final
  \/ Return

SpecReuse == Init /\ [][NextReuse]_vars

(* ------------------- evaluateDeltaRatio called by itself --------------- *)

\* arguments of the call in fortieths: gaps below, at and above 12, hco3
\* below, at and above 24, albumin absent and from 0 to 4.0
DeltaGaps == {200, 400, 480, 520, 600, 1000}
DeltaHco3s == {600, 880, 940, 960, 980, 1040, 1200}
DeltaAlbumins == {Undef, H(0), H(4), H(8)}

\* resetStateAndResults() on the new analyzer
Reset ==
  /\ pc = "idle"
  /\ calls = 0
  /\ returned = <<>>
  /\ state' = InitState
  /\ results' = InitResults
  /\ pc' = "reset"
  /\ stateRef' = stateRef + 1
  /\ UNCHANGED <<values, calls, returned, ui>>

\* evaluateDeltaRatio(anionGap, hco3, albumin) with numbers of the caller's
\* choice; the caller holds the arguments, the returned text and the state
CallEvaluateDeltaRatio ==
  /\ pc = "reset"
  /\ \E ag \in DeltaGaps, hco3 \in DeltaHco3s, albumin \in DeltaAlbumins :
       /\ state' = evaluateDeltaRatio(state, ag, hco3, albumin)
       /\ returned' =
            Append(returned,
                   [input |-> [anionGap |-> Num(ag), hco3 |-> Num(hco3),
                               albumin |-> albumin],
                    results |-> DeltaRatioText(state'),
                    state |-> state',
                    call |-> calls,
                    ref |-> stateRef])
  /\ pc' = "called"
  /\ UNCHANGED <<values, results, calls, stateRef, ui>>

NextDelta ==
  \/ Reset
  \/ CallEvaluateDeltaRatio

SpecDelta == Init /\ [][NextDelta]_vars

(* --------------------------------- App --------------------------------- *)

\* the variables of the analyzer
analyzerVars == <<pc, values, results, state, calls, returned, stateRef>>

\* the keys analyze reads from its argument
AnalyzerKeys == {"ph", "paco2", "hco3", "na", "cl", "albumin"}

\* the argument as analyze reads it: a key the object does not have reads
\* as undefined
ReadProps(v) ==
  [key \in DOMAIN v \cup AnalyzerKeys |->
     IF key \in DOMAIN v THEN v[key] ELSE Undef]

\* handleError without its setResults(null)
handleError_KeepsResults(a, errorMessage) ==
  [a EXCEPT !.error = errorMessage, !.isLoading = FALSE]

\* handleError(errorMessage)
handleError(a, errorMessage) ==
  [a EXCEPT !.error = errorMessage, !.isLoading = FALSE,
            !.results = NoResults]

\* handleLoading(loadingState)
handleLoading(a, loadingState) ==
  [a EXCEPT !.isLoading = loadingState, !.error = NoError]

\* handleReset() up to the setTimeout
handleReset(a) ==
  [a EXCEPT !.activeTab = "manual", !.results = NoResults,
            !.isLoading = FALSE, !.error = NoError, !.isResetting = TRUE]

\* handleAnalysis(inputValues) up to the call of abgAnalyzer.analyze
handleAnalysisCalls(a, inputValues) ==
  [a EXCEPT !.isLoading = TRUE, !.error = NoError, !.results = NoResults,
            !.at = "handleAnalysis", !.inputValues = inputValues]

\* handleAnalysis after analyze has returned analysisResult: an error of the
\* engine is a non-empty string, so it is truthy iff it is not null
handleAnalysisReturns(a, analysisResult) ==
  IF analysisResult.results.error # NoError
    THEN [handleError(a, analysisResult.results.error) EXCEPT
            !.isLoading = FALSE, !.at = "idle"]
    ELSE [a EXCEPT
            !.results = [t |-> "result",
                         analysis |-> analysisResult.results,
                         state |-> analysisResult.state,
                         inputValues |-> a.inputValues],
            !.error = NoError, !.isLoading = FALSE, !.at = "idle"]

\* onAnalyze(inputValues): handleAnalysis starts and calls analyze
HandleAnalysis(inputValues) ==
  /\ app.at = "idle"
  /\ app' = handleAnalysisCalls(app, inputValues)
  /\ Analyze(ReadProps(inputValues))

\* analyze has returned to handleAnalysis, which stores the outcome
HandleAnalysisEnd ==
  /\ app.at = "handleAnalysis"
  /\ pc = "idle"
  /\ app' = handleAnalysisReturns(app, returned[Len(returned)])
  /\ UNCHANGED <<analyzerVars, form, upload>>

\* handleAnalysis(inputValues) with one of: a metabolic acidosis that is
\* analysed to the end, a normal gas, a missing ph, a ph out of range and a
\* ph that makes a stage throw
AppHandleAnalysis ==
  /\ Len(returned) < MaxCalls
  /\ \E v \in {Values(P(725), H(60), H(26), H(280), H(200), H(4)),
              Values(P(740), H(80), H(48), Undef, Undef, Undef),
              Values(Undef, H(80), H(48), Undef, Undef, Undef),
              Values(P(595), H(80), H(48), Undef, Undef, Undef),
              Values(Str(725), H(80), H(48), Undef, Undef, Undef)} :
       HandleAnalysis(v)
  /\ UNCHANGED <<form, upload>>

\* handleError(errorMessage), called with a message of the form or of the
\* upload component
HandleError ==
  /\ app.at = "idle"
  /\ pc = "idle"
  /\ \E errorMessage \in
          {Message("Please fix the errors in the form."),
           Message("Unsupported file type. Please upload an image or PDF.")} :
       app' = handleError(app, errorMessage)
  /\ UNCHANGED <<analyzerVars, form, upload>>

\* handleLoading(loadingState)
HandleLoading ==
  /\ app.at = "idle"
  /\ pc = "idle"
  /\ \E loadingState \in BOOLEAN : app' = handleLoading(app, loadingState)
  /\ UNCHANGED <<analyzerVars, form, upload>>

\* handleReset(): the manual tab is shown, and the effect on isResetting
\* clears the form; FileUpload is no longer rendered
HandleReset ==
  /\ app.at = "idle"
  /\ pc = "idle"
  /\ app' = handleReset(app)
  /\ form' = FormInit
  /\ upload' = UploadInit
  /\ UNCHANGED analyzerVars

\* the callback of the setTimeout of handleReset
ResetTimeout ==
  /\ app.at = "idle"
  /\ pc = "idle"
  /\ app.isResetting
  /\ app' = [app EXCEPT !.isResetting = FALSE]
  /\ UNCHANGED <<analyzerVars, form, upload>>

\* onTabChange(tab) = setActiveTab(tab): the component of the other tab is
\* rendered anew and the one of the tab that is left is removed
SetActiveTab(tab) ==
  /\ app.at = "idle"
  /\ pc = "idle"
  /\ app' = [app EXCEPT !.activeTab = tab]
  /\ form' = IF tab = app.activeTab THEN form ELSE FormInit
  /\ upload' = IF tab = app.activeTab THEN upload ELSE UploadInit
  /\ UNCHANGED analyzerVars

\* a click on one of the tabs
SelectTab == \E tab \in {"manual", "upload"} : SetActiveTab(tab)

\* the handlers of App called in any order, each analysis run to its end
NextApp ==
  \/ AppHandleAnalysis
  \/ Step1
  \/ Step2
  \/ Step3
  \/ Step4
  \/ Step5
  \/ Step6
  \/ Final
  \/ Return
  \/ HandleAnalysisEnd
  \/ HandleError
  \/ HandleLoading
  \/ HandleReset
  \/ ResetTimeout
  \/ SelectTab

SpecApp == Init /\ [][NextApp]_vars

(* --------------------------- ManualInputForm --------------------------- *)

\* physiologicalRanges[key].min, ph in hundredths and the others in fortieths
FormMin(key) ==
  CASE key = "ph" -> 600
    [] key = "paco2" -> 400
    [] key = "hco3" -> 80
    [] key = "pao2" -> 400
    [] key = "na" -> 3600
    [] key = "cl" -> 2800
    [] key = "be" -> -1200
    [] key = "sao2" -> 0
    [] key = "k" -> 80
    [] key = "albumin" -> 40

\* physiologicalRanges[key].max
FormMax(key) ==
  CASE key = "ph" -> 800
    [] key = "paco2" -> 8000
    [] key = "hco3" -> 2400
    [] key = "pao2" -> 28000
    [] key = "na" -> 7200
    [] key = "cl" -> 5200
    [] key = "be" -> 1200
    [] key = "sao2" -> 4000
    [] key = "k" -> 280
    [] key = "albumin" -> 240

\* the check of the field's range left out
validateInput_NoRange(name, value) ==
  IF value.t = "empty" THEN ""
  ELSE IF value.t = "text" THEN "Must be a number."
  ELSE ""

\* validateInput(name, value): the error text, '' for none
validateInput(name, value) ==
  IF value.t = "empty" THEN ""
  ELSE IF value.t = "text" THEN "Must be a number."
  ELSE IF value.n < FormMin(name) \/ value.n > FormMax(name)
    THEN "Outside range"
  ELSE ""

\* formIsValid after the loop of handleSubmit
formIsValid(formValues) ==
  \A key \in FormKeySet : validateInput(key, formValues[key]) = ""

\* valuesToAnalyze after the loop of handleSubmit: parseFloat(value) under
\* every key whose text is not empty, parses and has no error
valuesToAnalyze(formValues) ==
  [key \in {k \in FormKeySet :
              /\ formValues[k].t # "empty"
              /\ formValues[k].t # "text"
              /\ validateInput(k, formValues[k]) = ""}
     |-> Num(formValues[key].n)]

\* requiredFields.filter(key => valuesToAnalyze[key] === undefined)
missingRequired(v) == {key \in {"ph", "paco2", "hco3"} : key \notin DOMAIN v}

\* the texts typed into each field: none, a text that is no number for ph,
\* and numbers inside, on and beside the bounds of the field
FormTexts(key) ==
  CASE key = "ph" ->
         {EmptyText, NotANumberText, NumberText(595), NumberText(600),
          NumberText(725), NumberText(805)}
    [] key = "paco2" ->
         {EmptyText, NumberText(380), NumberText(400), NumberText(1200),
          NumberText(6020), NumberText(8000), NumberText(8020)}
    [] key = "hco3" ->
         {EmptyText, NumberText(60), NumberText(80), NumberText(600),
          NumberText(2420)}
    [] key = "pao2" -> {EmptyText, NumberText(3600)}
    [] key = "na" -> {EmptyText, NumberText(5600)}
    [] key = "cl" -> {EmptyText, NumberText(4000)}
    [] key = "be" -> {EmptyText, NumberText(-80)}
    [] key = "sao2" -> {EmptyText, NumberText(3880)}
    [] key = "k" -> {EmptyText, NumberText(320)}
    [] key = "albumin" -> {EmptyText, NumberText(80)}

\* handleChange(e): one field gets a new text and its error
HandleChange ==
  /\ pc = "idle"
  /\ app.at = "idle"
  /\ calls = 0
  /\ \E name \in FormKeySet :
       \E value \in FormTexts(name) :
         form' = [form EXCEPT
                    !.formValues[name] = value,
                    !.errors[name] = validateInput(name, value)]
  /\ UNCHANGED <<analyzerVars, app, upload>>

\* handleClearForm()
HandleClearForm ==
  /\ pc = "idle"
  /\ app.at = "idle"
  /\ calls = 0
  /\ form' = FormInit
  /\ UNCHANGED <<analyzerVars, app, upload>>

\* handleSubmit(e), with onError and onAnalyze the handleError and
\* handleAnalysis of App
HandleSubmit ==
  /\ pc = "idle"
  /\ app.at = "idle"
  /\ calls = 0
  /\ form' = [form EXCEPT !.errors =
        [key \in FormKeySet |-> validateInput(key, form.formValues[key])]]
  /\ IF ~formIsValid(form.formValues)
       THEN /\ app' = handleError(app,
                 Message("Please correct the highlighted invalid input values."))
            /\ UNCHANGED analyzerVars
     ELSE IF missingRequired(valuesToAnalyze(form.formValues)) # {}
       THEN /\ app' = handleError(app,
                 Message("Analysis requires at least pH, PaCO2, and HCO3 values."))
            /\ UNCHANGED analyzerVars
     ELSE HandleAnalysis(valuesToAnalyze(form.formValues))
  /\ UNCHANGED upload

NextForm ==
  \/ HandleChange
  \/ HandleClearForm
  \/ HandleSubmit
  \/ Step1
  \/ Step2
  \/ Step3
  \/ Step4
  \/ Step5
  \/ Step6
  \/ Final
  \/ Return
  \/ HandleAnalysisEnd

SpecForm == Init /\ [][NextForm]_vars

(* ------------------------------ FileUpload ------------------------------ *)

\* the files, pasted images and page selections of one behaviour
MaxJobs == 3

\* onTabChange('upload') on the manual tab: App renders FileUpload in its
\* initial state
SelectUploadTab ==
  /\ app.activeTab = "manual"
  /\ SetActiveTab("upload")

\* handleResetLocalState(): the useState values and pdfDocRef; the work
\* that has not completed is not touched
handleResetLocalState(u) ==
  [u EXCEPT !.isProcessing = FALSE, !.ocrResults = 0, !.ocrError = FALSE,
            !.loadingMessage = "", !.showCamera = FALSE,
            !.pdfThumbnails = 0, !.selectedPdfPage = 0, !.pdfDocRef = 0]

\* this component after processFile(file) for the file kinds 'image', 'pdf'
\* and any other, up to the start of the FileReader; job is the number the
\* file gets.  For another kind processFile calls onError.
processFile(u, job, kind) ==
  LET reset == [handleResetLocalState(u) EXCEPT !.jobs = job] IN
  IF kind = "image"
    THEN [reset EXCEPT !.isProcessing = TRUE,
            !.loadingMessage = "Processing image...",
            !.reading = @ \cup {[job |-> job, kind |-> "image"]}]
  ELSE IF kind = "pdf"
    THEN [reset EXCEPT !.isProcessing = TRUE,
            !.loadingMessage = "Loading PDF document...",
            !.reading = @ \cup {[job |-> job, kind |-> "pdf"]}]
  ELSE reset

\* the FileUpload component is on the page and no handler is running
UploadMounted == app.activeTab = "upload" /\ app.at = "idle" /\ pc = "idle"

\* handleFileChange(e): a file chosen in the file dialog
HandleFileChange ==
  /\ UploadMounted
  /\ upload.jobs < MaxJobs
  /\ \E kind \in {"image", "pdf", "other"} :
       /\ upload' = processFile(upload, upload.jobs + 1, kind)
       /\ app' = IF kind \in {"image", "pdf"} THEN app
                 ELSE handleError(app, Message(
                   "Unsupported file type. Please upload an image or PDF."))
  /\ UNCHANGED <<analyzerVars, form>>

\* handleDrop(e) with a file: returns at once while isProcessing
HandleDrop ==
  /\ UploadMounted
  /\ upload.jobs < MaxJobs
  /\ ~upload.isProcessing
  /\ \E kind \in {"image", "pdf", "other"} :
       /\ upload' = processFile(upload, upload.jobs + 1, kind)
       /\ app' = IF kind \in {"image", "pdf"} THEN app
                 ELSE handleError(app, Message(
                   "Unsupported file type. Please upload an image or PDF."))
  /\ UNCHANGED <<analyzerVars, form>>

\* handlePasteEvent(event) with an image on the clipboard: returns at once
\* while isProcessing
HandlePasteEvent ==
  /\ UploadMounted
  /\ upload.jobs < MaxJobs
  /\ ~upload.isProcessing
  /\ upload' =
       [handleResetLocalState(upload) EXCEPT
          !.jobs = upload.jobs + 1,
          !.isProcessing = TRUE,
          !.loadingMessage = "Processing pasted image...",
          !.reading = @ \cup {[job |-> upload.jobs + 1, kind |-> "image"]}]
  /\ UNCHANGED <<analyzerVars, app, form>>

\* callGeminiAPI(data) up to the fetch, with the API key configured and the
\* data a data:image URL
callGeminiAPI(u, job) ==
  [u EXCEPT !.loadingMessage = "Analyzing image with Gemini...",
            !.ocrError = FALSE, !.ocrResults = 0,
            !.requests = @ \cup {job}]

\* reader.onload of processImage: the image is handed to callGeminiAPI
ImageRead ==
  /\ UploadMounted
  /\ \E r \in upload.reading :
       /\ r.kind = "image"
       /\ upload' = callGeminiAPI([upload EXCEPT !.reading = @ \ {r}], r.job)
  /\ UNCHANGED <<analyzerVars, app, form>>

\* reader.onload of processPDF up to the await of getDocument
PdfRead ==
  /\ UploadMounted
  /\ \E r \in upload.reading :
       /\ r.kind = "pdf"
       /\ upload' = [upload EXCEPT !.reading = @ \ {r},
                                   !.loadingPdf = @ \cup {r.job}]
  /\ UNCHANGED <<analyzerVars, app, form>>

\* reader.onerror of processImage and of processPDF
ReadError ==
  /\ UploadMounted
  /\ \E r \in upload.reading :
       /\ upload' = [upload EXCEPT !.reading = @ \ {r},
                                   !.isProcessing = FALSE,
                                   !.loadingMessage = ""]
       /\ app' = handleError(app,
            Message(IF r.kind = "image" THEN "Error reading image file."
                                        ELSE "Error reading PDF file."))
  /\ UNCHANGED <<analyzerVars, form>>

\* getDocument has resolved: pdfDocRef is set and displayPdfThumbnails runs
\* up to its first await
PdfLoaded ==
  /\ UploadMounted
  /\ \E job \in upload.loadingPdf :
       upload' = [upload EXCEPT !.loadingPdf = @ \ {job},
                                !.drawing = @ \cup {job},
                                !.pdfDocRef = job,
                                !.loadingMessage = "Rendering PDF page thumbnails...",
                                !.pdfThumbnails = 0]
  /\ UNCHANGED <<analyzerVars, app, form>>

\* getDocument has failed: the catch block of processPDF
PdfFailed ==
  /\ UploadMounted
  /\ \E job \in upload.loadingPdf :
       upload' = [upload EXCEPT !.loadingPdf = @ \ {job},
                                !.isProcessing = FALSE,
                                !.loadingMessage = "",
                                !.pdfDocRef = 0]
  /\ app' = handleError(app, Message("Failed to load PDF."))
  /\ UNCHANGED <<analyzerVars, form>>

\* displayPdfThumbnails after its loop: the thumbnails of the document it
\* read from pdfDocRef when it started; isProcessing stays as it is
ThumbnailsDrawn ==
  /\ UploadMounted
  /\ \E job \in upload.drawing :
       upload' = [upload EXCEPT !.drawing = @ \ {job},
                                !.pdfThumbnails = job,
                                !.loadingMessage =
                                  "Please select a page thumbnail to analyze."]
  /\ UNCHANGED <<analyzerVars, app, form>>

\* handleThumbnailClick(pageNum) up to the await of getPage, with the
\* thumbnails on the page: refused only while isProcessing and the message
\* is the one of callGeminiAPI
HandleThumbnailClick ==
  /\ UploadMounted
  /\ upload.jobs < MaxJobs
  /\ upload.pdfThumbnails # 0 /\ upload.ocrResults = 0 /\ ~upload.ocrError
  /\ ~(upload.isProcessing
         /\ upload.loadingMessage = "Analyzing image with Gemini...")
  /\ IF upload.pdfDocRef = 0
       THEN /\ app' = handleError(app, Message("PDF document not loaded."))
            /\ UNCHANGED upload
       ELSE /\ upload' = [upload EXCEPT
                 !.jobs = upload.jobs + 1,
                 !.selectedPdfPage = 1,
                 !.isProcessing = TRUE,
                 !.loadingMessage = "Rendering page for analysis...",
                 !.ocrResults = 0,
                 !.ocrError = FALSE,
                 !.rendering = @ \cup {upload.jobs + 1}]
            /\ UNCHANGED app
  /\ UNCHANGED <<analyzerVars, form>>

\* the page is rendered and handed to callGeminiAPI
PageRendered ==
  /\ UploadMounted
  /\ \E job \in upload.rendering :
       upload' = callGeminiAPI([upload EXCEPT !.rendering = @ \ {job}], job)
  /\ UNCHANGED <<analyzerVars, app, form>>

\* the page could not be rendered: the catch block of handleThumbnailClick
PageFailed ==
  /\ UploadMounted
  /\ \E job \in upload.rendering :
       upload' = [upload EXCEPT !.rendering = @ \ {job},
                                !.isProcessing = FALSE,
                                !.loadingMessage = "",
                                !.selectedPdfPage = 0]
  /\ app' = handleError(app, Message("Failed to render page."))
  /\ UNCHANGED <<analyzerVars, form>>

\* toggleCamera() with the camera off, up to the await of getUserMedia; the
\* button is disabled while isProcessing
ToggleCamera ==
  /\ UploadMounted
  /\ ~upload.isProcessing
  /\ upload.camera = 0
  /\ upload' = [upload EXCEPT !.camera = 1]
  /\ UNCHANGED <<analyzerVars, app, form>>

\* getUserMedia has resolved: setShowCamera(true) and then
\* handleResetLocalState(), which sets showCamera to false again and stops
\* the stream, so that the preview never takes a snapshot
CameraGranted ==
  /\ UploadMounted
  /\ upload.camera = 1
  /\ upload' = [handleResetLocalState([upload EXCEPT !.showCamera = TRUE])
                  EXCEPT !.camera = 0]
  /\ UNCHANGED <<analyzerVars, app, form>>

\* getUserMedia has failed
CameraDenied ==
  /\ UploadMounted
  /\ upload.camera = 1
  /\ upload' = [upload EXCEPT !.camera = 0, !.showCamera = FALSE]
  /\ app' = handleError(app, Message("Could not access camera."))
  /\ UNCHANGED <<analyzerVars, form>>

\* the fetch of callGeminiAPI has completed with values, with no value or
\* with a failure; the finally block clears isProcessing
GeminiResponse ==
  /\ UploadMounted
  /\ \E job \in upload.requests :
       \E outcome \in {"values", "empty", "failed"} :
         upload' = [upload EXCEPT
                      !.requests = @ \ {job},
                      !.ocrResults = IF outcome = "failed" THEN 0 ELSE job,
                      !.ocrError = outcome # "values",
                      !.isProcessing = FALSE,
                      !.loadingMessage = ""]
  /\ UNCHANGED <<analyzerVars, app, form>>

NextUpload ==
  \/ SelectUploadTab
  \/ HandleFileChange
  \/ HandleDrop
  \/ HandlePasteEvent
  \/ ImageRead
  \/ PdfRead
  \/ ReadError
  \/ PdfLoaded
  \/ PdfFailed
  \/ ThumbnailsDrawn
  \/ HandleThumbnailClick
  \/ PageRendered
  \/ PageFailed
  \/ ToggleCamera
  \/ CameraGranted
  \/ CameraDenied
  \/ GeminiResponse

SpecUpload == Init /\ [][NextUpload]_vars

(* ======================= properties of the analyzer ==================== *)

\* analyze has returned
Returned == pc = "idle" /\ calls > 0

\* analyze has returned without an error
Succeeded == Returned /\ results.error.kind = "null"

\* the pipeline has run to its end without an error
PipelineDone ==
  pc \in {"return", "idle"} /\ calls > 0 /\ results.error.kind = "null"

\* the stage positions that follow step n
AfterStep2 == pc \in {"step3", "step4", "step5", "step6", "final"} \/ PipelineDone
AfterStep3 == pc \in {"step4", "step5", "step6", "final"} \/ PipelineDone
AfterStep4 == pc \in {"step5", "step6", "final"} \/ PipelineDone

\* no stage has run: the step texts are empty and the state is as reset
NoStageRan ==
  /\ results.step1 = "" /\ results.step2 = "" /\ results.step3 = ""
  /\ results.step4 = "" /\ results.step5 = "" /\ results.step6 = ""
  /\ results.finalInterpretation = ""
  /\ state.acidBaseStatus = "null" /\ state.primaryDisorder = "null"
  /\ state.compensationType = "null"
  /\ state.expectedCompensationValue.t = "null"
  /\ state.compensationAssessment = "null"
  /\ state.additionalDisorders = <<>>
  /\ state.anionGap.t = "null" /\ state.correctedAnionGap.t = "null"
  /\ state.deltaRatio.t = "null" /\ state.deltaRatioAssessment = "null"

TenLabels ==
  {"respiratory acidosis", "metabolic acidosis", "mixed acidemia",
   "respiratory alkalosis", "metabolic alkalosis", "mixed alkalemia",
   "mixed compensated resp acid + met alk",
   "mixed compensated resp alk + met acid", "normal", "compensated"}

\* C1: once step 3 has run, primaryDisorder is the label of the decision
\* table for (acidBaseStatus, paco2, hco3), each row read with the numbers of
\* the table (45 is 1800, 35 is 1400, 22 is 880, 26 is 1040), and so is one
\* of the ten labels, never null.
C1_PrimaryDisorderTable ==
  AfterStep3 =>
    LET s == state.acidBaseStatus
        p == values.paco2.n
        h == values.hco3.n
        d == state.primaryDisorder
    IN /\ d \in TenLabels
       /\ (s = "acidemia" /\ p > 1800) => d = "respiratory acidosis"
       /\ (s = "acidemia" /\ p <= 1800 /\ h < 880) => d = "metabolic acidosis"
       /\ (s = "acidemia" /\ p <= 1800 /\ h >= 880) => d = "mixed acidemia"
       /\ (s = "alkalemia" /\ p < 1400) => d = "respiratory alkalosis"
       /\ (s = "alkalemia" /\ p >= 1400 /\ h > 1040) => d = "metabolic alkalosis"
       /\ (s = "alkalemia" /\ p >= 1400 /\ h <= 1040) => d = "mixed alkalemia"
       /\ (s = "normal" /\ p > 1800 /\ h > 1040)
            => d = "mixed compensated resp acid + met alk"
       /\ (s = "normal" /\ p < 1400 /\ h < 880)
            => d = "mixed compensated resp alk + met acid"
       /\ (s = "normal" /\ p >= 1400 /\ p <= 1800 /\ h >= 880 /\ h <= 1040)
            => d = "normal"
       /\ (s = "normal" /\ ~(p > 1800 /\ h > 1040) /\ ~(p < 1400 /\ h < 880)
             /\ ~(p >= 1400 /\ p <= 1800 /\ h >= 880 /\ h <= 1040))
            => d = "compensated"

\* a normal pH with paco2 exactly 45 and a high hco3 ends as "compensated"
C1_Witness ==
  /\ Succeeded
  /\ state.acidBaseStatus = "normal"
  /\ values.paco2.n = 1800 /\ values.hco3.n > 1040
  /\ state.primaryDisorder = "compensated"

\* C2: once step 2 has run, acidBaseStatus is acidemia for ph < 7.35,
\* alkalemia for ph > 7.45 and normal otherwise, 7.35 and 7.45 included.
C2_StatusFromPh ==
  AfterStep2 =>
    /\ state.acidBaseStatus \in {"acidemia", "alkalemia", "normal"}
    /\ state.acidBaseStatus = "acidemia" <=> values.ph.n < 735
    /\ state.acidBaseStatus = "alkalemia" <=> values.ph.n > 745
    /\ values.ph.n \in {735, 745} => state.acidBaseStatus = "normal"

C2_Witness ==
  Succeeded /\ values.ph.n = 735 /\ state.acidBaseStatus = "normal"

\* a required value that is missing, null or not numeric
Unusable(x) == x.t \in {"undefined", "null", "nan"}

\* C3: when a required value is missing, null or not numeric, the error names
\* the first such field in the order ph, paco2, hco3 and no stage runs.
C3_MissingRequired ==
  (calls > 0 /\ (Unusable(values.ph) \/ Unusable(values.paco2)
                   \/ Unusable(values.hco3))) =>
    /\ pc \in {"return", "idle"}
    /\ results.error.kind = "missing"
    /\ results.error.field =
         (IF Unusable(values.ph) THEN "ph"
          ELSE IF Unusable(values.paco2) THEN "paco2" ELSE "hco3")
    /\ NoStageRan

\* ph is a number, paco2 is null and hco3 is not numeric: paco2 is named
C3_Witness ==
  /\ Returned
  /\ values.ph.t = "num" /\ values.paco2.t = "null" /\ values.hco3.t = "nan"
  /\ results.error.kind = "missing" /\ results.error.field = "paco2"

InBounds(x, lo, hi) == x.n >= lo /\ x.n <= hi

\* C4: with the three required values numeric, the input is accepted iff
\* 6.0 <= ph <= 8.0, 10 <= paco2 <= 150 and 2 <= hco3 <= 60; otherwise the
\* error is a range error on the first value out of bounds and no stage runs.
C4_RangeCheck ==
  (calls > 0 /\ ~Unusable(values.ph) /\ ~Unusable(values.paco2)
     /\ ~Unusable(values.hco3)) =>
    LET okPh == InBounds(values.ph, 600, 800)
        okPaco2 == InBounds(values.paco2, 400, 6000)
        okHco3 == InBounds(values.hco3, 80, 2400)
    IN /\ (okPh /\ okPaco2 /\ okHco3) <=> results.error.kind = "null"
       /\ (okPh /\ okPaco2 /\ okHco3 /\ Returned) => results.step1 # ""
       /\ ~(okPh /\ okPaco2 /\ okHco3) =>
            /\ pc \in {"return", "idle"}
            /\ results.error.kind = "range"
            /\ results.error.field =
                 (IF ~okPh THEN "ph" ELSE IF ~okPaco2 THEN "paco2" ELSE "hco3")
            /\ NoStageRan

\* ph 8.0 is accepted, paco2 150.5 and hco3 1.5 are not: paco2 is reported
C4_Witness ==
  /\ Returned
  /\ values.ph.n = 800 /\ values.paco2.n = 6020 /\ values.hco3.n = 60
  /\ values.ph.t = "num" /\ values.paco2.t = "num" /\ values.hco3.t = "num"
  /\ results.error.kind = "range" /\ results.error.field = "paco2"

\* the whole input at its limits is accepted and analyzed
C4_WitnessAccepted ==
  /\ Succeeded
  /\ values.ph.n = 600 /\ values.paco2.n = 6000 /\ values.hco3.n = 80
  /\ results.step1 # ""

\* |x|
Dist(a, b) == IF a >= b THEN a - b ELSE b - a

\* C5: for a metabolic primary disorder, once step 4 has run,
\* expectedCompensationValue is 1.5 * hco3 + 8 (acidosis) or
\* 40 + 0.6 * (hco3 - 24) (alkalosis), and compensationAssessment is
\* "appropriate" exactly when |paco2 - expected| is at most 2 (acidosis) or
\* 5 (alkalosis), the bound included, and "mixed" otherwise.  The equations
\* are cleared of fractions: values are in fortieths.
C5_MetabolicCompensation ==
  AfterStep4 =>
    LET p == values.paco2.n
        h == values.hco3.n
        e == state.expectedCompensationValue
        a == state.compensationAssessment
    IN /\ state.primaryDisorder = "metabolic acidosis" =>
            /\ e.t = "num" /\ 2 * e.n = 3 * h + 2 * 320
            /\ a = (IF Dist(2 * p, 3 * h + 2 * 320) <= 2 * 80
                      THEN "appropriate" ELSE "mixed")
       /\ state.primaryDisorder = "metabolic alkalosis" =>
            /\ e.t = "num" /\ 5 * e.n = 5 * 1600 + 3 * (h - 960)
            /\ a = (IF Dist(5 * p, 5 * 1600 + 3 * (h - 960)) <= 5 * 200
                      THEN "appropriate" ELSE "mixed")

\* metabolic acidosis with paco2 exactly 2 away from Winter's value
C5_Witness ==
  /\ Succeeded
  /\ state.primaryDisorder = "metabolic acidosis"
  /\ Dist(2 * values.paco2.n, 3 * values.hco3.n + 640) = 160
  /\ state.compensationAssessment = "appropriate"

\* metabolic alkalosis with paco2 exactly 5 away from the expected value
C5_WitnessAlkalosis ==
  /\ Succeeded
  /\ state.primaryDisorder = "metabolic alkalosis"
  /\ Dist(values.paco2.n, state.expectedCompensationValue.n) = 200
  /\ state.compensationAssessment = "appropriate"

\* C6: for a respiratory primary disorder, once step 4 has run, with
\* d = paco2 - 40, acute = 24 + 0.1 d and chronic = 24 + 0.35 d (acidosis) or
\* acute = 24 + 0.2 d and chronic = 24 + 0.5 d (alkalosis):
\* expectedCompensationValue is the one nearer to hco3 and compensationType
\* names it, chronic on a tie; compensationAssessment is "appropriate"
\* exactly when |hco3 - expected| <= 3.  All quantities are multiplied by 20.
C6_RespiratoryCompensation ==
  (AfterStep4 /\ state.primaryDisorder
                   \in {"respiratory acidosis", "respiratory alkalosis"}) =>
    LET acid == state.primaryDisorder = "respiratory acidosis"
        d == values.paco2.n - 1600
        m20 == 20 * values.hco3.n
        acute20 == 20 * 960 + (IF acid THEN 2 * d ELSE 4 * d)
        chronic20 == 20 * 960 + (IF acid THEN 7 * d ELSE 10 * d)
        nearerAcute == Dist(m20, acute20) < Dist(m20, chronic20)
        chosen20 == IF nearerAcute THEN acute20 ELSE chronic20
    IN /\ state.compensationType = (IF nearerAcute THEN "acute" ELSE "chronic")
       /\ state.expectedCompensationValue.t = "num"
       /\ 20 * state.expectedCompensationValue.n = chosen20
       /\ state.compensationAssessment =
            (IF Dist(m20, chosen20) <= 20 * 120 THEN "appropriate" ELSE "mixed")

\* respiratory acidosis with hco3 as far from the acute as from the chronic
\* expectation: chronic is chosen
C6_Witness ==
  /\ Succeeded
  /\ state.primaryDisorder = "respiratory acidosis"
  /\ LET d == values.paco2.n - 1600 IN
       /\ d > 0
       /\ Dist(20 * values.hco3.n, 19200 + 2 * d)
            = Dist(20 * values.hco3.n, 19200 + 7 * d)
  /\ state.compensationType = "chronic"

\* respiratory alkalosis with hco3 exactly 3 above the acute expectation
C6_WitnessAlkalosis ==
  /\ Succeeded
  /\ state.primaryDisorder = "respiratory alkalosis"
  /\ state.compensationType = "acute"
  /\ values.hco3.n = state.expectedCompensationValue.n + 120
  /\ state.compensationAssessment = "appropriate"

Pure == {"metabolic acidosis", "metabolic alkalosis",
         "respiratory acidosis", "respiratory alkalosis"}

Metabolic == {"metabolic acidosis", "metabolic alkalosis"}

Tolerance(primary) ==
  IF primary = "metabolic acidosis" THEN 80
  ELSE IF primary = "metabolic alkalosis" THEN 200 ELSE 120

\* the value step 4 compares with the expectation
Measured == IF state.primaryDisorder \in Metabolic
              THEN values.paco2.n ELSE values.hco3.n

\* C7 as stated: for each of the four pure primary disorders, a measured
\* value below expected - tolerance makes step 4 append the complementary
\* alkalosis, a measured value above expected + tolerance the complementary
\* acidosis, the assessment being mixed.
C7_AsStated ==
  (pc = "step5" /\ state.primaryDisorder \in Pure) =>
    LET e == state.expectedCompensationValue.n
        t == Tolerance(state.primaryDisorder)
        metabolic == state.primaryDisorder \in Metabolic
    IN /\ Measured < e - t =>
            /\ state.compensationAssessment = "mixed"
            /\ state.additionalDisorders =
                 <<IF metabolic THEN "respiratory alkalosis"
                                ELSE "metabolic alkalosis">>
       /\ Measured > e + t =>
            /\ state.compensationAssessment = "mixed"
            /\ state.additionalDisorders =
                 <<IF metabolic THEN "respiratory acidosis"
                                ELSE "metabolic acidosis">>

\* C7 amended: step 4 sets the assessment to mixed and appends one label in
\* both cases.  For a metabolic primary the measured paco2 below
\* expected - tolerance appends respiratory alkalosis and above
\* expected + tolerance respiratory acidosis; for a respiratory primary the
\* measured hco3 below expected - tolerance appends metabolic acidosis and
\* above expected + tolerance metabolic alkalosis.  ph 7.25, paco2 30,
\* hco3 13 appends respiratory acidosis.
C7_SuperimposedDisorder ==
  /\ (pc = "step5" /\ state.primaryDisorder \in Pure) =>
       LET e == state.expectedCompensationValue.n
           t == Tolerance(state.primaryDisorder)
           metabolic == state.primaryDisorder \in Metabolic
       IN /\ Measured < e - t =>
               /\ state.compensationAssessment = "mixed"
               /\ state.additionalDisorders =
                    <<IF metabolic THEN "respiratory alkalosis"
                                   ELSE "metabolic acidosis">>
          /\ Measured > e + t =>
               /\ state.compensationAssessment = "mixed"
               /\ state.additionalDisorders =
                    <<IF metabolic THEN "respiratory acidosis"
                                   ELSE "metabolic alkalosis">>
  /\ (pc = "step5" /\ values.ph.n = 725 /\ values.paco2.n = 1200
        /\ values.hco3.n = 520) =>
       state.additionalDisorders = <<"respiratory acidosis">>

\* respiratory acidosis with hco3 below expected - 3: metabolic acidosis is
\* appended
C7_Witness ==
  /\ pc = "step5"
  /\ state.primaryDisorder = "respiratory acidosis"
  /\ values.hco3.n < state.expectedCompensationValue.n - 120
  /\ state.additionalDisorders = <<"metabolic acidosis">>

\* the example of the claim: ph 7.25, paco2 30, hco3 13
C7_WitnessExample ==
  /\ pc = "step5"
  /\ values.ph.n = 725 /\ values.paco2.n = 1200 /\ values.hco3.n = 520
  /\ state.primaryDisorder = "metabolic acidosis"
  /\ state.additionalDisorders = <<"respiratory acidosis">>

\* a value that was passed (is not undefined)
Supplied(x) == x.t # "undefined"

\* a value that is a number; null counts as the number 0 in arithmetic
NumberOf(x) == IF x.t = "num" THEN x.n ELSE 0

\* what C8 says of the two gaps when they are set: anionGap is
\* na - (cl + hco3); correctedAnionGap adds 2.5 * (4.0 - albumin) when
\* albumin is numeric and in [0, 4.0) and is anionGap otherwise
GapValues ==
  LET ag == state.anionGap.n
      cag == state.correctedAnionGap.n
      alb == values.albumin
  IN /\ ag = NumberOf(values.na) - (NumberOf(values.cl) + values.hco3.n)
     /\ IF alb.t = "num" /\ alb.n >= 0 /\ alb.n < 160
          THEN 2 * cag = 2 * ag + 5 * (160 - alb.n)
          ELSE cag = ag

\* C8 as stated: after analyze the two gaps are non-null iff na and cl (and
\* hco3) are supplied, with the values of GapValues.
C8_AsStated ==
  Succeeded =>
    LET supplied == Supplied(values.na) /\ Supplied(values.cl)
                      /\ Supplied(values.hco3)
    IN /\ state.anionGap.t = "num" <=> supplied
       /\ state.correctedAnionGap.t = "num" <=> supplied
       /\ supplied => GapValues

\* C8 amended: after analyze anionGap and correctedAnionGap are non-null iff
\* na and cl are supplied and neither is NaN (not numeric); then
\* anionGap = na - (cl + hco3), a null na or cl counting as 0, and
\* correctedAnionGap = anionGap + 2.5 * (4.0 - albumin) when albumin is
\* supplied, numeric and in [0, 4.0), and anionGap in every other case.
C8_AnionGap ==
  Succeeded =>
    LET usable == /\ Supplied(values.na) /\ values.na.t # "nan"
                  /\ Supplied(values.cl) /\ values.cl.t # "nan"
                  /\ Supplied(values.hco3)
    IN /\ state.anionGap.t = "num" <=> usable
       /\ state.correctedAnionGap.t = "num" <=> usable
       /\ usable => GapValues

\* na 140, cl 100, hco3 15, albumin 2.0: gap 25, corrected gap 30
C8_Witness ==
  /\ Succeeded
  /\ values.na = H(280) /\ values.cl = H(200) /\ values.hco3 = H(30)
  /\ values.albumin = H(4)
  /\ state.anionGap = H(50) /\ state.correctedAnionGap = H(60)

\* na is supplied but not numeric: no gap is computed
C8_WitnessNotNumeric ==
  /\ Succeeded
  /\ values.na.t = "nan" /\ values.cl.t = "num"
  /\ state.anionGap.t = "null" /\ state.correctedAnionGap.t = "null"

\* C9: step 5 appends "high anion gap metabolic acidosis" to
\* additionalDisorders iff the corrected anion gap it leaves is above 12 and
\* primaryDisorder is not metabolic acidosis; with a corrected gap of 12 or
\* less, or with the step skipped, it leaves additionalDisorders as it was.
C9_HighGapAppend ==
  [][pc = "step5" =>
       state'.additionalDisorders =
         (IF /\ state'.correctedAnionGap.t = "num"
             /\ state'.correctedAnionGap.n > 480
             /\ state'.primaryDisorder # "metabolic acidosis"
            THEN Append(state.additionalDisorders,
                        "high anion gap metabolic acidosis")
            ELSE state.additionalDisorders)]_vars

\* the raw gap is 12 or less, the albumin-corrected gap is above 12, the
\* primary disorder is not metabolic acidosis: the label has been appended
C9_Witness ==
  /\ pc = "step6"
  /\ state.anionGap.t = "num" /\ state.anionGap.n <= 480
  /\ state.correctedAnionGap.n > 480
  /\ state.primaryDisorder # "metabolic acidosis"
  /\ Len(state.additionalDisorders) > 0
  /\ state.additionalDisorders[Len(state.additionalDisorders)]
       = "high anion gap metabolic acidosis"

\* a corrected gap of exactly 12 on a primary other than metabolic acidosis
C9_WitnessTwelve ==
  /\ pc = "step6"
  /\ state.correctedAnionGap = H(24)
  /\ state.primaryDisorder # "metabolic acidosis"
  /\ ~Includes(state.additionalDisorders, "high anion gap metabolic acidosis")

C10_WitnessExample ==
  /\ pc = "final"
  /\ state.anionGap = H(50) /\ values.hco3 = H(30)
  /\ values.albumin.t = "undefined"
  /\ state.deltaRatio.t = "num"
  /\ 9 * state.deltaRatio.n = 13 * state.deltaRatio.d
  /\ state.deltaRatioAssessment = "pure HAGMA"

\* a ratio below 1.0 and a ratio above 2.0
C10_WitnessBelow ==
  /\ pc = "final" /\ state.deltaRatio.t = "num"
  /\ state.deltaRatio.n < state.deltaRatio.d
  /\ state.deltaRatioAssessment = "concurrent NAGMA"

C10_WitnessAbove ==
  /\ pc = "final" /\ state.deltaRatio.t = "num"
  /\ state.deltaRatio.n > 2 * state.deltaRatio.d
  /\ state.deltaRatioAssessment = "concurrent met alk"

\* twice the normal anion gap C11 describes: 12, or max(3, 12 - 2.5 * (4.0 -
\* albumin)) when albumin is a number in [0, 4.0)
TwiceStatedNormalAG ==
  LET alb == values.albumin IN
  IF alb.t = "num" /\ alb.n >= 0 /\ alb.n < 160
    THEN (IF 2 * 480 - 5 * (160 - alb.n) >= 2 * 120
            THEN 2 * 480 - 5 * (160 - alb.n) ELSE 2 * 120)
    ELSE 2 * 480

\* C11 as stated: when step 6 of analyze has stored a ratio, its numerator
\* deltaAG is the anion gap step 6 was given minus the normal anion gap, which
\* is 12 by default and max(3, 12 - 2.5 * (4.0 - albumin)) when albumin in
\* [0, 4.0) is supplied, and its denominator deltaHCO3 is 24 - hco3.
C11_AsStated ==
  (pc = "final" /\ state.deltaRatio.t = "num") =>
    /\ 2 * state.deltaRatio.n
         = 2 * state.correctedAnionGap.n - TwiceStatedNormalAG
    /\ state.deltaRatio.d = 960 - values.hco3.n

\* ph 7.25, paco2 30, hco3 15, na 140, cl 100, albumin 2.0: the corrected gap
\* is 30 and step 6 stores 18/9 (30 - 12 over 24 - 15), pure HAGMA, where a
\* normal gap of 7 would give 23/9
C11_Witness ==
  /\ pc = "final"
  /\ values.ph = P(725) /\ values.paco2 = H(60) /\ values.hco3 = H(30)
  /\ values.na = H(280) /\ values.cl = H(200) /\ values.albumin = H(4)
  /\ state.correctedAnionGap = H(60)
  /\ state.deltaRatio = [t |-> "num", n |-> 720, d |-> 360]
  /\ state.deltaRatioAssessment = "pure HAGMA"

\* s contains sub
Contains(s, sub) ==
  \E i \in 1..(Len(s) - Len(sub) + 1) : SubSeq(s, i, i + Len(sub) - 1) = sub

\* s ends with tail
EndsWith(s, tail) ==
  Len(s) >= Len(tail) /\ SubSeq(s, Len(s) - Len(tail) + 1, Len(s)) = tail

\* the labels C12 says are listed: the distinct labels of seq in insertion
\* order, without "high anion gap metabolic acidosis" when the primary is
\* metabolic acidosis and without a label equal to the primary
RECURSIVE StatedListed(_, _)
StatedListed(primary, seq) ==
  IF seq = <<>> THEN <<>>
  ELSE LET front == StatedListed(primary, SubSeq(seq, 1, Len(seq) - 1))
           last  == seq[Len(seq)]
       IN IF \/ \E i \in 1..(Len(seq) - 1) : seq[i] = last
             \/ last = primary
             \/ (primary = "metabolic acidosis"
                   /\ last = "high anion gap metabolic acidosis")
            THEN front ELSE Append(front, last)

RECURSIVE JoinedWithAnd(_)
JoinedWithAnd(seq) ==
  IF seq = <<>> THEN ""
  ELSE IF Len(seq) = 1 THEN seq[1]
  ELSE JoinedWithAnd(SubSeq(seq, 1, Len(seq) - 1)) \o " and " \o seq[Len(seq)]

\* C12 as stated: for a primary disorder other than normal,
\* finalInterpretation ends with " and superimposed " followed by the listed
\* labels (StatedListed) joined by " and " and a period, and has no
\* "superimposed" part when no label is listed; so a "normal anion gap
\* metabolic acidosis" appended by step 6 always appears.
C12_AsStated ==
  (PipelineDone /\ state.primaryDisorder # "normal") =>
    LET listed == StatedListed(state.primaryDisorder, state.additionalDisorders)
        text == results.finalInterpretation
        tail == " and superimposed " \o JoinedWithAnd(listed) \o "."
    IN IF listed = <<>>
         THEN ~Contains(text, "superimposed") /\ EndsWith(text, ".")
         ELSE /\ EndsWith(text, tail)
              /\ ~Contains(SubSeq(text, 1, Len(text) - Len(tail)), "superimposed")

\* na 140, cl 113, albumin 2.0 on a metabolic acidosis: the gap is at most 12,
\* the corrected gap is above 12, step 6 finds a ratio below 1 and appends
\* "normal anion gap metabolic acidosis", which finalInterpretation leaves out
C12_Witness ==
  /\ PipelineDone
  /\ state.primaryDisorder = "metabolic acidosis"
  /\ state.anionGap.n <= 480 /\ state.correctedAnionGap.n > 480
  /\ state.deltaRatioAssessment = "concurrent NAGMA"
  /\ Includes(state.additionalDisorders, "normal anion gap metabolic acidosis")
  /\ ~Contains(results.finalInterpretation, "normal anion gap")

\* C13: for a primary disorder other than normal, finalInterpretation
\* contains " with complete compensation" iff acidBaseStatus is normal or
\* primaryDisorder is "compensated", contains " with expected compensation"
\* iff compensationAssessment is "appropriate", and never contains both.
C13_CompensationPhrase ==
  (PipelineDone /\ state.primaryDisorder # "normal") =>
    LET text == results.finalInterpretation
        complete == Contains(text, " with complete compensation")
        expected == Contains(text, " with expected compensation")
    IN /\ complete <=> (state.acidBaseStatus = "normal"
                          \/ state.primaryDisorder = "compensated")
       /\ expected <=> state.compensationAssessment = "appropriate"
       /\ ~(complete /\ expected)

\* a normal pH with a primary other than "compensated": complete compensation
C13_Witness ==
  /\ PipelineDone
  /\ state.acidBaseStatus = "normal"
  /\ state.primaryDisorder = "mixed compensated resp alk + met acid"
  /\ Contains(results.finalInterpretation, " with complete compensation")
  /\ ~Contains(results.finalInterpretation, " with expected compensation")

\* an appropriate compensation of a pure disorder: expected compensation
C13_WitnessExpected ==
  /\ PipelineDone
  /\ state.primaryDisorder = "respiratory acidosis"
  /\ state.compensationAssessment = "appropriate"
  /\ Contains(results.finalInterpretation, " with expected compensation")
  /\ ~Contains(results.finalInterpretation, " with complete compensation")

\* C14: whenever primaryDisorder is "normal", that is for a normal pH with
\* paco2 in [35, 45] and hco3 in [22, 26], finalInterpretation is exactly
\* "Normal acid-base status.", whatever the optional values are and whatever
\* additionalDisorders holds.
C14_NormalInterpretation ==
  PipelineDone =>
    LET within == /\ values.ph.n >= 735 /\ values.ph.n <= 745
                  /\ values.paco2.n >= 1400 /\ values.paco2.n <= 1800
                  /\ values.hco3.n >= 880 /\ values.hco3.n <= 1040
    IN /\ within <=> state.primaryDisorder = "normal"
       /\ within => results.finalInterpretation = "Normal acid-base status."

\* a normal triple with na 140, cl 100 and albumin 2.0: step 5 has appended
\* the high anion gap label and the interpretation is still the normal one
C14_Witness ==
  /\ PipelineDone
  /\ state.primaryDisorder = "normal"
  /\ values.albumin = H(4)
  /\ state.additionalDisorders = <<"high anion gap metabolic acidosis">>
  /\ results.finalInterpretation = "Normal acid-base status."

\* C16: for every input whose ph, paco2 and hco3 are numbers within bounds,
\* with any subset of the optional keys present and with or without an
\* unknown key, analyze returns with error = null and with non-empty step1
\* to step6 and finalInterpretation.
C16_ToleratesKeys ==
  (/\ Returned
   /\ values.ph.t = "num" /\ values.ph.n >= 600 /\ values.ph.n <= 800
   /\ values.paco2.t = "num" /\ values.paco2.n >= 400
   /\ values.paco2.n <= 6000
   /\ values.hco3.t = "num" /\ values.hco3.n >= 80
   /\ values.hco3.n <= 2400) =>
    /\ results.error = NoError
    /\ results.step1 # "" /\ results.step2 # "" /\ results.step3 # ""
    /\ results.step4 # "" /\ results.step5 # "" /\ results.step6 # ""
    /\ results.finalInterpretation # ""

\* a metabolic acidosis with an unknown key and no optional key at all
C16_Witness ==
  /\ Returned
  /\ "k" \in DOMAIN values
  /\ values.na.t = "undefined" /\ values.cl.t = "undefined"
  /\ values.albumin.t = "undefined"
  /\ state.primaryDisorder = "metabolic acidosis"
  /\ results.error = NoError
  /\ results.step5 # "" /\ results.step6 # ""
  /\ results.finalInterpretation # ""

\* albumin alone among the optional keys
C16_WitnessAlbuminOnly ==
  /\ Returned
  /\ values.na.t = "undefined" /\ values.cl.t = "undefined"
  /\ values.albumin.t = "num"
  /\ results.error = NoError /\ results.step5 # "" /\ results.step6 # ""

\* C15: the result of analyze depends on its input alone: any two calls made
\* with the same input, on a new analyzer or after any earlier calls (valid,
\* invalid or failing) on the same analyzer, return identical step texts,
\* interpretation, error and state.
C15_Deterministic ==
  \A i, j \in 1..Len(returned) :
    returned[i].input = returned[j].input =>
      /\ returned[i].results = returned[j].results
      /\ returned[i].state = returned[j].state

\* a call that threw, then an analysis that appends a disorder, then the same
\* input as the first call of a new analyzer
C15_Witness ==
  /\ Len(returned) = 3
  /\ returned[1].results.error.kind = "thrown"
  /\ returned[2].call = 2 /\ returned[3].call = 1
  /\ returned[2].input = returned[3].input
  /\ returned[3].results.error = NoError
  /\ returned[3].state.additionalDisorders # <<>>

\* the same input as first and as third call of one analyzer, with another
\* analysis that appends a disorder between the two
C15_WitnessSameAnalyzer ==
  /\ Len(returned) = 3
  /\ returned[1].call = 1 /\ returned[2].call = 2 /\ returned[3].call = 3
  /\ returned[1].input = returned[3].input
  /\ returned[2].input # returned[1].input
  /\ returned[2].state.additionalDisorders # <<>>
  /\ returned[3].results.error = NoError

\* the text of step k in a results record
StepText(res, k) ==
  CASE k = 1 -> res.step1 [] k = 2 -> res.step2 [] k = 3 -> res.step3
    [] k = 4 -> res.step4 [] k = 5 -> res.step5 [] k = 6 -> res.step6

\* the stage at pc fails: step 2 calls toFixed on a ph that is a string,
\* step 4 on a measured paco2 (metabolic primary) or hco3 (respiratory
\* primary) that is a string
StageFails ==
  \/ pc = "step2" /\ values.ph.t = "str"
  \/ /\ pc = "step4"
     /\ \/ state.primaryDisorder \in Metabolic /\ values.paco2.t = "str"
        \/ /\ state.primaryDisorder
                \in {"respiratory acidosis", "respiratory alkalosis"}
           /\ values.hco3.t = "str"

\* the number of the stage at pc
StageNumber ==
  CASE pc = "step1" -> 1 [] pc = "step2" -> 2 [] pc = "step3" -> 3
    [] pc = "step4" -> 4 [] pc = "step5" -> 5 [] pc = "step6" -> 6
    [] OTHER -> 7

C17_WitnessStep2 ==
  /\ Returned
  /\ results.error.kind = "thrown"
  /\ values.ph.t = "str"
  /\ results.step1 # "" /\ results.step2 = "" /\ results.step6 = ""
  /\ state.acidBaseStatus # "null"

\* no label occurs twice in seq
NoDuplicates(seq) ==
  \A i, j \in 1..Len(seq) : i # j => seq[i] # seq[j]

\* old is the beginning of new
IsPrefix(old, new) ==
  Len(old) <= Len(new) /\ SubSeq(new, 1, Len(old)) = old

\* C18: in every state reached during and after an analysis
\* additionalDisorders holds no label twice, and every stage leaves the
\* labels already there in their places, adding its own after them.
C18_NoDuplicateDisorders ==
  [][/\ calls' > 0 => NoDuplicates(state'.additionalDisorders)
     /\ pc # "idle" =>
          IsPrefix(state.additionalDisorders, state'.additionalDisorders)]_vars

\* a respiratory acidosis on which step 4 appended metabolic acidosis and
\* step 5 the high anion gap label after it
C18_Witness ==
  /\ Returned
  /\ state.primaryDisorder = "respiratory acidosis"
  /\ state.additionalDisorders
       = <<"metabolic acidosis", "high anion gap metabolic acidosis">>

\* C19: within one analysis run every scalar field of the state that holds a
\* value keeps it in every later stage (so it changes at most once, from
\* null to its value), and additionalDisorders only grows at its end.
C19_WriteOnce ==
  [][pc # "idle" =>
       /\ state.acidBaseStatus # "null"
            => state'.acidBaseStatus = state.acidBaseStatus
       /\ state.primaryDisorder # "null"
            => state'.primaryDisorder = state.primaryDisorder
       /\ state.compensationType # "null"
            => state'.compensationType = state.compensationType
       /\ state.expectedCompensationValue.t # "null"
            => state'.expectedCompensationValue = state.expectedCompensationValue
       /\ state.compensationAssessment # "null"
            => state'.compensationAssessment = state.compensationAssessment
       /\ state.anionGap.t # "null" => state'.anionGap = state.anionGap
       /\ state.correctedAnionGap.t # "null"
            => state'.correctedAnionGap = state.correctedAnionGap
       /\ state.deltaRatio.t # "null" => state'.deltaRatio = state.deltaRatio
       /\ state.deltaRatioAssessment # "null"
            => state'.deltaRatioAssessment = state.deltaRatioAssessment
       /\ IsPrefix(state.additionalDisorders, state'.additionalDisorders)]_vars

\* an analysis that has set every scalar field: a metabolic acidosis has no
\* compensation type, so the witness is the other nine fields non-null
C19_Witness ==
  /\ Returned
  /\ state.acidBaseStatus # "null" /\ state.primaryDisorder # "null"
  /\ state.expectedCompensationValue.t = "num"
  /\ state.compensationAssessment = "mixed"
  /\ state.anionGap.t = "num" /\ state.correctedAnionGap.t = "num"
  /\ state.deltaRatio.t = "num" /\ state.deltaRatioAssessment # "null"
  /\ Len(state.additionalDisorders) = 2

\* a respiratory primary with an appropriate compensation on which step 5
\* appends a label: the assessment of step 4 is still there
C19_WitnessKept ==
  /\ Returned
  /\ state.compensationType # "null"
  /\ state.compensationAssessment = "appropriate"
  /\ state.additionalDisorders = <<"high anion gap metabolic acidosis">>

\* C20 as stated: a range error cites the offending value and the range the
\* validator enforces for that field: 6.0 to 8.0 for ph, 10 to 150 for paco2,
\* 2 to 60 for hco3.
C20_AsStated ==
  (calls > 0 /\ results.error.kind = "range") =>
    LET e == results.error IN
    /\ e.field = "ph" =>
         e.value = values.ph.n /\ e.lo = 600 /\ e.hi = 800
    /\ e.field = "paco2" =>
         e.value = values.paco2.n /\ e.lo = 400 /\ e.hi = 6000
    /\ e.field = "hco3" =>
         e.value = values.hco3.n /\ e.lo = 80 /\ e.hi = 2400

\* ph 5.95 is refused with a message that prints the range 6.8 to 8.0
C20_Witness ==
  /\ Returned
  /\ values.ph = P(595)
  /\ results.error.kind = "range" /\ results.error.field = "ph"
  /\ results.error.value = 595
  /\ results.error.lo = 680 /\ results.error.hi = 800

\* hco3 1.5 is refused with a message that prints the range 5 to 60
C20_WitnessHco3 ==
  /\ Returned
  /\ values.hco3 = H(3)
  /\ results.error.kind = "range" /\ results.error.field = "hco3"
  /\ results.error.lo = 200 /\ results.error.hi = 2400

\* step 6 has been passed without an error
AfterStep6 == pc = "final" \/ PipelineDone

\* the texts evaluateDeltaRatio returns
DeltaRatioTexts ==
  {"Delta Ratio not calculable.",
   "Delta Ratio interpretation complex.",
   "Delta Ratio. Ratio < 1.0 suggests concurrent NAGMA.",
   "Delta Ratio. Ratio > 2.0 suggests concurrent Metabolic Alkalosis.",
   "Delta Ratio. Ratio 1-2 is consistent with uncomplicated HAGMA."}

\* C21: the delta-ratio evaluator runs (step6 is one of its texts) iff the
\* anion gap was computed, the corrected gap is above 12 and the primary
\* disorder is metabolic acidosis.  Otherwise step6 is the 'Not Applicable:
\* Primary disorder ...' text when the primary is not metabolic acidosis,
\* the 'Not Applicable: Anion gap ...' text when it is and the corrected gap
\* is at most 12, the 'Skipped: ...' text when it is and no gap was computed,
\* and deltaRatio and deltaRatioAssessment are null.
C21_DeltaRatioGuard ==
  AfterStep6 =>
    LET computed == state.anionGap.t = "num"
        elevated == computed /\ state.correctedAnionGap.n > 480
        metAcid  == state.primaryDisorder = "metabolic acidosis"
        ran      == results.step6 \in DeltaRatioTexts
    IN /\ ran <=> (elevated /\ metAcid)
       /\ ~ran =>
            /\ state.deltaRatio.t = "null"
            /\ state.deltaRatioAssessment = "null"
            /\ results.step6 =
                 IF ~metAcid
                   THEN "Not Applicable: Primary disorder is not metabolic acidosis."
                 ELSE IF computed
                   THEN "Not Applicable: Anion gap is not elevated."
                 ELSE "Skipped: Anion gap calculation was skipped or failed."
       /\ ran => state.deltaRatioAssessment # "null"

\* the evaluator ran on a metabolic acidosis whose gap is 12 before the
\* albumin correction and 17 after it
C21_Witness ==
  /\ Returned
  /\ state.primaryDisorder = "metabolic acidosis"
  /\ state.anionGap = Num(480) /\ state.correctedAnionGap = Num(680)
  /\ results.step6 \in DeltaRatioTexts

\* a metabolic acidosis without electrolytes: step 6 is skipped
C21_WitnessSkipped ==
  /\ Returned
  /\ state.primaryDisorder = "metabolic acidosis"
  /\ state.anionGap.t = "null"
  /\ results.step6 = "Skipped: Anion gap calculation was skipped or failed."

\* a primary other than metabolic acidosis without electrolytes
C21_WitnessNotApplicable ==
  /\ Returned
  /\ state.primaryDisorder = "respiratory alkalosis"
  /\ state.anionGap.t = "null"
  /\ results.step6
       = "Not Applicable: Primary disorder is not metabolic acidosis."

\* C22: step 4 evaluates compensation iff the primary disorder is one of the
\* four pure categories.  For a mixed variant, 'normal' or 'compensated' it
\* leaves compensationType, expectedCompensationValue and
\* compensationAssessment null and additionalDisorders empty, and returns
\* the 'Full compensation' text for 'compensated' and the skip text
\* otherwise.  For a pure category, once step 4 has returned, the assessment
\* and the expected value are set, compensationType is set iff the primary is
\* respiratory, and one disorder has been appended iff the assessment is
\* mixed (none otherwise).
C22_CompensationFrame ==
  AfterStep4 =>
    LET primary == state.primaryDisorder
        pure == primary \in {"respiratory acidosis", "respiratory alkalosis",
                             "metabolic acidosis", "metabolic alkalosis"}
        respiratory == primary \in {"respiratory acidosis",
                                    "respiratory alkalosis"}
    IN /\ ~pure =>
            /\ state.compensationType = "null"
            /\ state.expectedCompensationValue.t = "null"
            /\ state.compensationAssessment = "null"
            /\ pc = "step5" => state.additionalDisorders = <<>>
            /\ results.step4 =
                 IF primary = "compensated"
                   THEN "Full compensation (pH is within normal range)."
                   ELSE "Compensation assessment skipped (Mixed, Normal, or Undetermined Primary)."
       /\ pure =>
            /\ state.compensationAssessment \in {"appropriate", "mixed"}
            /\ state.expectedCompensationValue.t = "num"
            /\ state.compensationType # "null" <=> respiratory
            /\ respiratory => state.compensationType \in {"acute", "chronic"}
            /\ pc = "step5" =>
                 Len(state.additionalDisorders)
                   = IF state.compensationAssessment = "mixed" THEN 1 ELSE 0
            /\ results.step4 # ""
            /\ ~Contains(results.step4, "skipped")
            /\ ~Contains(results.step4, "Full compensation")

\* step 4 has just evaluated a metabolic alkalosis as mixed: no type, one
\* disorder appended
C22_Witness ==
  /\ pc = "step5"
  /\ state.primaryDisorder = "metabolic alkalosis"
  /\ state.compensationType = "null"
  /\ state.compensationAssessment = "mixed"
  /\ Len(state.additionalDisorders) = 1

\* step 4 has just returned the full compensation text, leaving the state
C22_WitnessCompensated ==
  /\ pc = "step5"
  /\ state.primaryDisorder = "compensated"
  /\ results.step4 = "Full compensation (pH is within normal range)."
  /\ state.additionalDisorders = <<>>

\* step 4 has just skipped a mixed variant
C22_WitnessMixed ==
  /\ pc = "step5"
  /\ state.primaryDisorder = "mixed acidemia"
  /\ results.step4
       = "Compensation assessment skipped (Mixed, Normal, or Undetermined Primary)."

\* a respiratory primary with an appropriate compensation: nothing appended
C22_WitnessRespiratory ==
  /\ pc = "step5"
  /\ state.primaryDisorder = "respiratory acidosis"
  /\ state.compensationType = "chronic"
  /\ state.compensationAssessment = "appropriate"
  /\ state.additionalDisorders = <<>>

\* evaluateDeltaRatio has been called by itself and has returned
DeltaCalled == pc = "called" /\ Len(returned) = 1

\* C23: when evaluateDeltaRatio is given a hco3 with 24 - hco3 = 0 it returns
\* the 'not calculable' message, and with 24 - hco3 < 0 the 'interpretation
\* complex' message; in both cases deltaRatio stays null, the assessment
\* recorded is a 'concurrent met alk likely' one and nothing is appended to
\* additionalDisorders.
C23_DeltaHco3NotPositive ==
  DeltaCalled =>
    LET r  == returned[1]
        dh == 960 - r.input.hco3.n
    IN /\ dh = 0 =>
            /\ r.results = "Delta Ratio not calculable."
            /\ r.state.deltaRatioAssessment
                 = "concurrent met alk likely (delta HCO3 is zero)"
       /\ dh < 0 =>
            /\ r.results = "Delta Ratio interpretation complex."
            /\ r.state.deltaRatioAssessment
                 = "concurrent met alk likely (delta HCO3 negative)"
       /\ dh <= 0 =>
            /\ r.state.deltaRatio.t = "null"
            /\ r.state.additionalDisorders = <<>>
            /\ r.state = [InitState EXCEPT !.deltaRatioAssessment =
                                             r.state.deltaRatioAssessment]
            /\ state = r.state
       /\ dh > 0 => r.state.deltaRatio.t = "num"

\* the call with hco3 24
C23_Witness ==
  /\ DeltaCalled
  /\ returned[1].input.hco3 = Num(960)
  /\ returned[1].results = "Delta Ratio not calculable."

\* the call with hco3 26 and a gap of 25
C23_WitnessNegative ==
  /\ DeltaCalled
  /\ returned[1].input.hco3 = Num(1040)
  /\ returned[1].input.anionGap = Num(1000)
  /\ returned[1].results = "Delta Ratio interpretation complex."

\* the state object the caller of the i-th returned call holds, as it is
\* now: the object this.state refers to if that is still the same object,
\* else the object as it was when the analyzer let go of it
Held(i) ==
  IF returned[i].ref = stateRef THEN state ELSE returned[i].state

\* C24: every analyze call makes a new state object and a new result record,
\* so the result and the state object returned by an earlier call are, in
\* every state reached by later analyze calls on the same analyzer, as they
\* were when that call returned.
C24_ReturnedKept ==
  \A i \in 1..Len(returned) :
    /\ Held(i) = returned[i].state
    /\ \A j \in 1..Len(returned) :
         i # j => returned[i].ref # returned[j].ref

\* a later call on the same analyzer is past step 4, which has pushed a
\* disorder, while the caller of the first call holds a state with another
\* list of disorders
C24_Witness ==
  /\ Len(returned) = 1
  /\ calls = 2
  /\ pc = "step5"
  /\ state.additionalDisorders # <<>>
  /\ returned[1].call = 1
  /\ returned[1].results.error = NoError
  /\ returned[1].state.additionalDisorders # state.additionalDisorders

\* three calls on one analyzer have returned three different states
C24_WitnessThree ==
  /\ Len(returned) = 3
  /\ returned[1].call = 1 /\ returned[2].call = 2 /\ returned[3].call = 3
  /\ returned[1].state # returned[2].state
  /\ returned[2].state # returned[3].state
  /\ returned[1].state # returned[3].state

\* C26: through analyze the delta-ratio evaluator is entered only with a
\* hco3 below 22 and a gap above 12, so that 24 - hco3 is at least 2 and
\* the delta gap is positive: the branches for 24 - hco3 = 0 and < 0 are
\* never taken (their assessments are never recorded, and the evaluator
\* always stores a ratio), and a deltaRatio that is not null is strictly
\* positive with an assessment among 'pure HAGMA', 'concurrent NAGMA' and
\* 'concurrent met alk'.
C26_DeltaRatioReachable ==
  calls > 0 =>
    /\ state.deltaRatioAssessment
         \in {"null", "pure HAGMA", "concurrent NAGMA", "concurrent met alk"}
    /\ results.step6 \notin {"Delta Ratio not calculable.",
                             "Delta Ratio interpretation complex."}
    /\ (results.step6 \in DeltaRatioTexts
          \/ state.deltaRatio.t # "null"
          \/ state.deltaRatioAssessment # "null") =>
         /\ values.hco3.n < 880
         /\ state.correctedAnionGap.t = "num"
         /\ state.correctedAnionGap.n > 480
         /\ state.deltaRatio.t = "num"
         /\ state.deltaRatio.d = 960 - values.hco3.n
         /\ state.deltaRatio.d >= 80
         /\ state.deltaRatio.n > 0
         /\ state.deltaRatioAssessment
              \in {"pure HAGMA", "concurrent NAGMA", "concurrent met alk"}

\* the evaluator has run on the highest hco3 that gives a metabolic
\* acidosis, 21.5: the ratio is 6.5 / 2.5
C26_Witness ==
  /\ Returned
  /\ values.hco3 = H(43)
  /\ state.deltaRatio = [t |-> "num", n |-> 260, d |-> 100]
  /\ state.deltaRatioAssessment = "concurrent met alk"

\* an elevated gap with a hco3 of 24: the evaluator is not entered
C26_WitnessNotEntered ==
  /\ Returned
  /\ values.hco3 = H(48)
  /\ state.correctedAnionGap.t = "num" /\ state.correctedAnionGap.n > 480
  /\ state.deltaRatio.t = "null"
  /\ results.step6
       = "Not Applicable: Primary disorder is not metabolic acidosis."

\* the labels a step has appended to additionalDisorders
Appended == Len(state'.additionalDisorders) - Len(state.additionalDisorders)

\* C30: after every analysis that ends without an error additionalDisorders
\* holds at most two labels.  Step 4 appends at most one; step 5 appends at
\* most one, and only when the primary disorder is not metabolic acidosis;
\* step 6 appends at most one, and only when it is; the other steps append
\* none, so steps 5 and 6 never both append in one analysis.
C30_AtMostTwoLabels ==
  /\ [](\A i \in 1..Len(returned) :
          returned[i].results.error = NoError
            => Len(returned[i].state.additionalDisorders) <= 2)
  /\ [][/\ Step4 => Appended \in {0, 1}
        /\ Step5 => /\ Appended \in {0, 1}
                    /\ Appended = 1 => state.primaryDisorder # MetAcid
        /\ Step6 => /\ Appended \in {0, 1}
                    /\ Appended = 1 => state.primaryDisorder = MetAcid
        /\ (pc # "idle" /\ ~(Step4 \/ Step5 \/ Step6)) => Appended = 0]_vars

\* C30: a metabolic acidosis has returned with two labels, the first from
\* step 4 and the second from step 6
C30_Witness ==
  /\ Returned
  /\ results.error = NoError
  /\ state.primaryDisorder = MetAcid
  /\ Len(state.additionalDisorders) = 2
  /\ state.deltaRatioAssessment # "null"

\* C30: a disorder that is not a metabolic acidosis has returned with two
\* labels, the first from step 4 and the second from step 5
C30_WitnessAnionGap ==
  /\ Returned
  /\ results.error = NoError
  /\ state.primaryDisorder # MetAcid
  /\ Len(state.additionalDisorders) = 2
  /\ state.additionalDisorders[2] = HAGMA

(* ===================== properties of the components ==================== *)

\* the text of the field parses as a number inside the bounds of the field
InsideHint(key, text) ==
  /\ text.t = "num"
  /\ text.n >= FormMin(key) /\ text.n <= FormMax(key)

\* the form passes its own validation
FormPasses(formValues) ==
  /\ \A key \in FormKeySet :
       formValues[key].t = "empty" \/ InsideHint(key, formValues[key])
  /\ \A key \in {"ph", "paco2", "hco3"} : formValues[key].t # "empty"

\* C25: a submit of the manual input form invokes the engine only when
\* every non-empty field parses as a number inside the bounds of that field
\* and ph, paco2 and hco3 are present, passing exactly the non-empty fields
\* as numbers; in every other case the submit calls onError and does not
\* invoke the engine.
C25_FormGate ==
  [][HandleSubmit =>
       IF FormPasses(form.formValues)
         THEN /\ calls' = calls + 1
              /\ app'.at = "handleAnalysis"
              /\ DOMAIN app'.inputValues
                   = {key \in FormKeySet : form.formValues[key].t # "empty"}
              /\ \A key \in DOMAIN app'.inputValues :
                   /\ app'.inputValues[key] = Num(form.formValues[key].n)
                   /\ values'[key] = app'.inputValues[key]
              /\ \A key \in AnalyzerKeys \ DOMAIN app'.inputValues :
                   values'[key] = Undef
         ELSE /\ calls' = calls
              /\ pc' = "idle"
              /\ app'.at = "idle"
              /\ app'.error.kind = "message"
              /\ app'.results = NoResults]_vars

\* the form has passed five validated fields to the engine
C25_Witness ==
  /\ app.at = "handleAnalysis"
  /\ calls = 1
  /\ DOMAIN app.inputValues = {"ph", "paco2", "hco3", "pao2", "albumin"}
  /\ app.inputValues.albumin = Num(80)

\* a submit with valid required fields and a potassium outside its bounds:
\* onError, no call of the engine
C25_WitnessBlocked ==
  /\ calls = 0
  /\ app.error
       = Message("Please correct the highlighted invalid input values.")
  /\ form.errors["k"] = "Outside range"
  /\ \A key \in {"ph", "paco2", "hco3"} :
       InsideHint(key, form.formValues[key])

\* a submit without hco3: onError, no call of the engine
C25_WitnessMissing ==
  /\ calls = 0
  /\ app.error
       = Message("Analysis requires at least pH, PaCO2, and HCO3 values.")
  /\ form.formValues["hco3"].t = "empty"
  /\ form.formValues["ph"].t = "num"

\* C28 as stated: every value set the manual input form passes to onAnalyze
\* is accepted by validateInputs, so an analysis started by the form never
\* ends in a range error of the engine.
C28_AsStated ==
  (calls > 0 /\ app.inputValues = valuesToAnalyze(form.formValues)) =>
    results.error.kind # "range"

\* the form has passed a paco2 of 200, the upper bound of its field, and the
\* App holds the range error of the engine for it
C28_Witness ==
  /\ app.at = "idle"
  /\ calls = 1
  /\ form.formValues["paco2"] = NumberText(8000)
  /\ form.errors["paco2"] = ""
  /\ app.error.kind = "range" /\ app.error.field = "paco2"
  /\ app.error.value = 8000 /\ app.error.hi = 6000
  /\ app.results = NoResults

\* the same with a paco2 of 150.5, just above the bound of the engine
C28_WitnessBeside ==
  /\ app.at = "idle"
  /\ calls = 1
  /\ form.formValues["paco2"] = NumberText(6020)
  /\ app.error.kind = "range" /\ app.error.field = "paco2"

\* C27 as the specification states it: in the upload component at most one
\* extraction request is in flight at a time, no path starts one while
\* isProcessing is true, and a request that completes neither clears
\* isProcessing while the request of a newer file is in flight nor leaves
\* in ocrResults the values of an older file than the newest one handed in.
\* The file chooser starts a file whatever isProcessing is and a thumbnail
\* click is refused only under the message of callGeminiAPI, so this is
\* violated.
C27_AsStated ==
  /\ Cardinality(upload.requests) <= 1
  /\ upload.requests # {} => upload.isProcessing
  /\ upload.ocrResults # 0 => upload.ocrResults = upload.jobs

\* C27: two requests are in flight at once
C27_Witness ==
  /\ Cardinality(upload.requests) = 2
  /\ upload.isProcessing

\* C27: the request of an older file has completed, has cleared isProcessing
\* and has stored its values while the request of the newest file is in
\* flight
C27_WitnessOverwritten ==
  /\ upload.ocrResults # 0
  /\ upload.ocrResults < upload.jobs
  /\ upload.jobs \in upload.requests
  /\ ~upload.isProcessing

\* C29: in every state of App, whatever the order in which handleAnalysis,
\* handleError, handleLoading and handleReset are called, results and error
\* are not both non-null; when handleAnalysis returns, isLoading is false,
\* exactly one of results and error is set, and results is set only if the
\* error field of the object analyze returned is null; when handleReset
\* returns, results and error are null, isLoading is false and activeTab is
\* 'manual'.
C29_AppState ==
  /\ [](~(app.results # NoResults /\ app.error # NoError))
  /\ [][HandleAnalysisEnd =>
          /\ app'.isLoading = FALSE
          /\ (app'.results # NoResults) # (app'.error # NoError)
          /\ app'.results # NoResults =>
               returned[Len(returned)].results.error = NoError]_vars
  /\ [][HandleReset =>
          /\ app'.results = NoResults
          /\ app'.error = NoError
          /\ app'.isLoading = FALSE
          /\ app'.activeTab = "manual"]_vars

\* C29: handleAnalysis has returned with results after an error was shown
\* for an earlier analysis
C29_Witness ==
  /\ app.at = "idle"
  /\ Len(returned) >= 2
  /\ returned[1].results.error # NoError
  /\ app.results # NoResults
  /\ app.error = NoError
  /\ ~app.isLoading

\* C29: handleAnalysis has returned with the error of the engine
C29_WitnessError ==
  /\ app.at = "idle"
  /\ Len(returned) >= 1
  /\ app.error # NoError
  /\ app.error = returned[Len(returned)].results.error
  /\ app.results = NoResults

\* C29: handleReset has run on the upload tab after an analysis
C29_WitnessReset ==
  /\ Len(returned) >= 1
  /\ app.isResetting
  /\ app.activeTab = "manual"
  /\ app.results = NoResults
  /\ app.error = NoError

====
